---- MODULE Spec2Model ----
(***************************************************************************)
(* Model of the rpc-proxy health checking and forwarding core:             *)
(*   - types.RPCEndpoint runtime fields and their setters                   *)
(*   - health.MultiChainChecker (Start, Stop, AddChain, RemoveChain, the    *)
(*     per-chain prober goroutine and the per-endpoint probe goroutines)    *)
(*   - proxy.Server.handleRPCForChain (weighted failover forwarding)        *)
(***************************************************************************)
EXTENDS Integers, Sequences, FiniteSets, TLC

\* ------------------------------------------------------------------ bounds
\* healthConfig.Retries: attempts per probe pass (validateConfig: > 0).
Retries == 2
\* Number of probe passes ever started: the initial pass of every launched
\* runChainHealthChecker goroutine, and every pass started by a ticker firing.
MaxPasses == 2
\* Largest endpoint weight drawn for the forwarder's inputs.
MaxWeight == 2

\* ------------------------------------------------------- static configuration
\* The endpoints (types.RPCEndpoint objects) known to the process.
EndpointIds == {"e1", "e2", "e3", "e4"}

\* Chain names the registry is addressed with.
ChainNames == {"ethereum", "sepolia"}

\* The *ChainConfig objects handed to NewMultiChainChecker / AddChain.
ConfigIds == {"cfgEth", "cfgSep"}

\* The config object a caller registers a chain name with.
ConfigFor(name) == IF name = "ethereum" THEN "cfgEth" ELSE "cfgSep"

\* Marks an absent key of mc.chains.
NoConfig == "none"

\* ChainConfig.Chain.IsEnabled of each config object drawn as an input:
\* "cfgSep" is the config of a chain whose IsEnabled is false.
ChainIsEnabled(cfg) == cfg = "cfgEth"

\* ChainConfig.Endpoints of each config object, in configuration order.
ConfigEndpoints(cfg) ==
    IF cfg = "cfgEth" THEN <<"e1", "e2", "e3">>
    ELSE IF cfg = "cfgSep" THEN <<"e4">>
    ELSE <<>>

\* The set of elements of a sequence.
Range(s) == {s[i] : i \in DOMAIN s}

\* Config.CreateMultiChainHealthChecker: the map handed to
\* NewMultiChainChecker holds the chains of the configuration that are
\* enabled and have at least one endpoint.
CreateMultiChainHealthChecker ==
    [n \in ChainNames |->
        IF ~ChainIsEnabled(ConfigFor(n)) THEN NoConfig
        ELSE IF Len(ConfigEndpoints(ConfigFor(n))) = 0 THEN NoConfig
        ELSE ConfigFor(n)]

\* Response times a probe can measure (time.Since(start).Milliseconds()).
ResponseTimes == {7}

\* ------------------------------------------------- eth_blockNumber results
\* Strings are sequences of one-character strings.
HexDigits == <<"0","1","2","3","4","5","6","7","8","9","a","b","c","d","e","f">>

\* Value of one character in base 16, or -1 when it is no hex digit.
DigitValue(c) ==
    IF \E i \in DOMAIN HexDigits : HexDigits[i] = c
    THEN (CHOOSE i \in DOMAIN HexDigits : HexDigits[i] = c) - 1
    ELSE -1

\* strings.HasPrefix(blockHex, "0x")
HasPrefix0x(s) == Len(s) >= 2 /\ s[1] = "0" /\ s[2] = "x"

\* strconv.ParseUint(s, 16, 64) on the digits: -1 stands for a syntax error.
RECURSIVE ParseUint16(_)
ParseUint16(s) ==
    IF Len(s) = 0 THEN -1
    ELSE IF DigitValue(s[Len(s)]) < 0 THEN -1
    ELSE IF Len(s) = 1 THEN DigitValue(s[1])
    ELSE LET hi == ParseUint16(SubSeq(s, 1, Len(s) - 1))
         IN IF hi < 0 THEN -1 ELSE hi * 16 + DigitValue(s[Len(s)])

\* strconv.ParseInt(s, 16, 64): an optional sign, then ParseUint.
\* [ok |-> err == nil, val |-> the parsed integer].  The inputs drawn here
\* have at most three digits, so the 64-bit range error cannot arise.
ParseInt16(s) ==
    LET neg  == Len(s) > 0 /\ s[1] = "-"
        sgn  == Len(s) > 0 /\ s[1] \in {"+", "-"}
        body == IF sgn THEN SubSeq(s, 2, Len(s)) ELSE s
        un   == ParseUint16(body)
    IN IF un < 0 THEN [ok |-> FALSE, val |-> 0]
       ELSE [ok |-> TRUE, val |-> IF neg THEN 0 - un ELSE un]

DecDigits == <<"0","1","2","3","4","5","6","7","8","9">>

\* Decimal digits of a natural number.
RECURSIVE FormatNat(_)
FormatNat(n) ==
    IF n < 10 THEN <<DecDigits[n + 1]>>
    ELSE FormatNat(n \div 10) \o <<DecDigits[(n % 10) + 1]>>

\* fmt.Sprintf("%d", n)
FormatDecimal(n) == IF n < 0 THEN <<"-">> \o FormatNat(0 - n) ELSE FormatNat(n)

\* The upstream answers a probe can receive once the HTTP exchange succeeded:
\* the status code and what the body decodes to.
\*   body "malformed": json decoding fails;  "rpc_error": a non-null error
\*   member;  "no_result": no result member;  "number": a result that is no
\*   string;  "string": a string result, given in result.
Responses ==
    { [status |-> 500, body |-> "string",    result |-> <<"0","x","1","0">>],
      [status |-> 200, body |-> "malformed", result |-> <<>>],
      [status |-> 200, body |-> "rpc_error", result |-> <<"0","x","1","0">>],
      [status |-> 200, body |-> "no_result", result |-> <<>>],
      [status |-> 200, body |-> "number",    result |-> <<>>],
      [status |-> 200, body |-> "string",    result |-> <<"1","0">>],
      [status |-> 200, body |-> "string",    result |-> <<"0","x">>],
      [status |-> 200, body |-> "string",    result |-> <<"0","x","g">>],
      [status |-> 200, body |-> "string",    result |-> <<"0","x","1","0">>] }

\* processHealthCheckResponse's verdict on a response: the probe passes iff the
\* status is 200, the body decodes, carries no error, and its result is a
\* 0x-prefixed string that ParseInt accepts.
ProbePasses(resp) ==
    /\ resp.status = 200
    /\ resp.body = "string"
    /\ HasPrefix0x(resp.result)
    /\ ParseInt16(SubSeq(resp.result, 3, Len(resp.result))).ok

\* The block number string stored for a passing response.
BlockNumberOf(resp) ==
    FormatDecimal(ParseInt16(SubSeq(resp.result, 3, Len(resp.result))).val)


\* ------------------------------------------------------------------- state
VARIABLES
    enabled,     \* RPCEndpoint.Enabled of each endpoint (static configuration)
    weight,      \* RPCEndpoint.Weight of each endpoint (static configuration)
    endpoints,   \* runtime fields of each endpoint: Healthy, LastCheck,
                 \* ResponseTime, BlockNumber, FailCount
    chains,      \* mc.chains: chain name -> config object, NoConfig when absent
    isRunning,   \* mc.isRunning
    ctxDone,     \* mc.ctx has been cancelled (mc.cancel() was called)
    wg,          \* counter of mc.wg
    mu,          \* holder of mc.mu across steps: "free", "Stop" (the write
                 \* lock) or "RLock" (the read lock of a status call)
    probers,     \* the runChainHealthChecker goroutines, by launch number
    probes,      \* the checkEndpointHealth goroutines of each prober's pass
    launched,    \* number of prober goroutines launched so far
    ticks,       \* number of ticker firings consumed so far
    lastVerdict, \* history: the latest SetHealthy call of a probe, with the
                 \* endpoint's Healthy and FailCount just before it
    fwd,         \* the inbound call being handled by handleRPCForChain
    snap,        \* the GetChainStatus call being served
    hc           \* the single-chain health.Checker and its goroutines

vars == <<enabled, weight, endpoints, chains, isRunning, ctxDone, wg, mu,
          probers, probes, launched, ticks, lastVerdict, fwd, snap, hc>>

ProberIds == 1..MaxPasses

\* ---------------------------------------------------- types.RPCEndpoint
\* Runtime fields that start out healthy.
ZeroRuntimeHealthy ==
    [Healthy |-> TRUE, LastCheck |-> 0, ResponseTime |-> 0,
     BlockNumber |-> <<>>, FailCount |-> 0]

\* The zero value of the runtime fields (they are not loaded from storage).
ZeroRuntime ==
    [Healthy |-> FALSE, LastCheck |-> 0, ResponseTime |-> 0,
     BlockNumber |-> <<>>, FailCount |-> 0]

\* A SetHealthy that lets an endpoint recover only from a clean fail count.
SetHealthySlowRecovery(ep, healthy) ==
    [ep EXCEPT !.Healthy = healthy /\ ep.FailCount = 0,
               !.LastCheck = @ + 1,
               !.FailCount = IF healthy THEN 0 ELSE @ + 1]

\* A SetHealthy that forgets to reset the fail count.
SetHealthyNoReset(ep, healthy) ==
    [ep EXCEPT !.Healthy = healthy,
               !.LastCheck = @ + 1,
               !.FailCount = IF healthy THEN @ ELSE @ + 1]

\* RPCEndpoint.SetHealthy.  LastCheck is a stamp that every call advances
\* (time.Now()).
SetHealthy(ep, healthy) ==
    [ep EXCEPT !.Healthy = healthy,
               !.LastCheck = @ + 1,
               !.FailCount = IF healthy THEN 0 ELSE @ + 1]

\* RPCEndpoint.SetResponseTime
SetResponseTime(ep, rt) == [ep EXCEPT !.ResponseTime = rt]

\* RPCEndpoint.SetBlockNumber
SetBlockNumber(ep, bn) == [ep EXCEPT !.BlockNumber = bn]

\* RPCEndpoint.IsHealthy
IsHealthy(e) == endpoints[e].Healthy

\* health.Checker.markHealthy (the single-chain checker's success path).
markHealthy(ep, responseTime, blockNumber) ==
    SetBlockNumber(SetResponseTime(SetHealthy(ep, TRUE), responseTime), blockNumber)

\* A failure path that marks the endpoint unhealthy at the first failure.
markUnhealthyAtOnce(ep, responseTime, blockNumber) ==
    SetHealthy([SetBlockNumber(SetResponseTime(ep, responseTime), blockNumber)
                   EXCEPT !.FailCount = @ + 1], FALSE)

\* health.Checker.markUnhealthy (the single-chain checker's failure path):
\* the fail count is advanced, and from Retries on SetHealthy(false) is called.
markUnhealthy(ep, responseTime, blockNumber) ==
    LET counted == [SetBlockNumber(SetResponseTime(ep, responseTime), blockNumber)
                       EXCEPT !.FailCount = @ + 1]
    IN IF counted.FailCount >= Retries THEN SetHealthy(counted, FALSE) ELSE counted

\* health.Checker.checkEndpoint once client.Do returned a response: any
\* string result is handed to markHealthy as it stands.
checkEndpoint(ep, resp, responseTime) ==
    IF resp.status # 200 THEN markUnhealthy(ep, responseTime, <<>>)
    ELSE IF resp.body = "malformed" THEN markUnhealthy(ep, responseTime, <<>>)
    ELSE IF resp.body = "rpc_error" THEN markUnhealthy(ep, responseTime, <<>>)
    ELSE IF resp.body # "string" THEN markUnhealthy(ep, responseTime, <<>>)
    ELSE markHealthy(ep, responseTime, resp.result)

\* MultiChainChecker.processHealthCheckResponse, from entry to return.
processHealthCheckResponse(ep, resp, responseTime) ==
    LET timed == SetResponseTime(ep, responseTime)
    IN IF ProbePasses(resp)
       THEN SetHealthy(SetBlockNumber(timed, BlockNumberOf(resp)), TRUE)
       ELSE SetHealthy(timed, FALSE)

\* ------------------------------------------------ health.MultiChainChecker
NoProber == [pc |-> "unused", chainName |-> "", cfg |-> NoConfig]

\* A goroutine that has returned.
ExitedProber == [pc |-> "exited", chainName |-> "", cfg |-> NoConfig]

IdleProbe == [pc |-> "idle", attempt |-> 0]

NoProbes == [e \in EndpointIds |-> IdleProbe]

\* A fan-out that probes the disabled endpoints too.
NewPassAllEndpoints(cfg) ==
    [e \in EndpointIds |->
        IF e \in Range(ConfigEndpoints(cfg))
        THEN [pc |-> "attempt", attempt |-> 0]
        ELSE IdleProbe]

\* checkChainHealth's fan-out: one probe goroutine per enabled endpoint of
\* the config, each about to make its first attempt.
NewPass(cfg) ==
    [e \in EndpointIds |->
        IF e \in Range(ConfigEndpoints(cfg)) /\ enabled[e]
        THEN [pc |-> "attempt", attempt |-> 0]
        ELSE IdleProbe]

\* The order in which Start's range over mc.chains numbers the goroutines.
ChainOrder == <<"ethereum", "sepolia">>

IsRegistered(name) == chains[name] # NoConfig

RegisteredChains == SelectSeq(ChainOrder, IsRegistered)

\* A prober goroutine that has been launched and has not returned.
ProberLive(p) == probers[p].pc \in {"pass", "select"}

\* mc.wg.Add(1); go mc.runChainHealthChecker(name, cfg) for each of names
\* with the config at the same index of cfgs, the goroutine entering its
\* initial checkChainHealth.
LaunchProbers(names, cfgs) ==
    /\ launched + ticks + Len(names) <= MaxPasses
    /\ wg' = wg + Len(names)
    /\ launched' = launched + Len(names)
    /\ probers' = [p \in ProberIds |->
          IF p > launched /\ p <= launched + Len(names)
          THEN [pc |-> "pass", chainName |-> names[p - launched],
                cfg |-> cfgs[p - launched]]
          ELSE probers[p]]
    /\ probes' = [p \in ProberIds |->
          IF p > launched /\ p <= launched + Len(names)
          THEN NewPass(cfgs[p - launched])
          ELSE probes[p]]

\* The configs of the registered chains, in the order of RegisteredChains.
RegisteredConfig == [i \in 1..Len(RegisteredChains) |-> chains[RegisteredChains[i]]]

\* MultiChainChecker.Start, not yet running.
Start ==
    /\ mu = "free"
    /\ ~isRunning
    /\ isRunning' = TRUE
    /\ LaunchProbers(RegisteredChains, RegisteredConfig)
    /\ UNCHANGED <<enabled, weight, endpoints, chains, ctxDone, mu, ticks, lastVerdict, fwd, snap, hc>>

\* MultiChainChecker.Start while running: returns at once.
StartWhileRunning ==
    /\ mu = "free"
    /\ isRunning
    /\ UNCHANGED vars

\* MultiChainChecker.Stop up to mc.wg.Wait(): the lock stays held.
StopBegin ==
    /\ mu = "free"
    /\ isRunning
    /\ isRunning' = FALSE
    /\ ctxDone' = TRUE
    /\ mu' = "Stop"
    /\ UNCHANGED <<enabled, weight, endpoints, chains, wg, probers, probes,
                   launched, ticks, lastVerdict, fwd, snap, hc>>

\* MultiChainChecker.Stop while not running: returns at once.
StopWhileStopped ==
    /\ mu = "free"
    /\ ~isRunning
    /\ UNCHANGED vars

\* A Stop that does not wait for the probers.
StopReturnWithoutWait ==
    /\ mu = "Stop"
    /\ mu' = "free"
    /\ UNCHANGED <<enabled, weight, endpoints, chains, isRunning, ctxDone, wg,
                   probers, probes, launched, ticks, lastVerdict, fwd, snap, hc>>

\* mc.wg.Wait() returns and Stop's deferred Unlock runs.
StopReturn ==
    /\ mu = "Stop"
    /\ wg = 0
    /\ mu' = "free"
    /\ UNCHANGED <<enabled, weight, endpoints, chains, isRunning, ctxDone, wg,
                   probers, probes, launched, ticks, lastVerdict, fwd, snap, hc>>

\* An AddChain that only writes the map entry.
AddChainRegisterOnly(name, cfg) ==
    /\ mu = "free"
    /\ chains' = [chains EXCEPT ![name] = cfg]
    /\ UNCHANGED <<enabled, weight, endpoints, isRunning, ctxDone, wg, mu,
                   probers, probes, launched, ticks, lastVerdict, fwd, snap, hc>>

\* MultiChainChecker.AddChain
AddChain(name, cfg) ==
    /\ mu = "free"
    /\ chains' = [chains EXCEPT ![name] = cfg]
    /\ IF isRunning
       THEN LaunchProbers(<<name>>, <<cfg>>)
       ELSE UNCHANGED <<wg, launched, probers, probes>>
    /\ UNCHANGED <<enabled, weight, endpoints, isRunning, ctxDone, mu, ticks, lastVerdict, fwd, snap, hc>>

\* A removal that empties the whole registry.
RemoveChainAll(name) ==
    /\ mu = "free"
    /\ chains' = [n \in DOMAIN chains |-> NoConfig]
    /\ UNCHANGED <<enabled, weight, endpoints, isRunning, ctxDone, wg, mu,
                   probers, probes, launched, ticks, lastVerdict, fwd, snap, hc>>

\* MultiChainChecker.RemoveChain
RemoveChain(name) ==
    /\ mu = "free"
    /\ chains' = [chains EXCEPT ![name] = NoConfig]
    /\ UNCHANGED <<enabled, weight, endpoints, isRunning, ctxDone, wg, mu,
                   probers, probes, launched, ticks, lastVerdict, fwd, snap, hc>>


\* ---------------------------------- checkEndpointHealth, one probe goroutine
ProbeAt(p, e, pc) == probes[p][e].pc = pc

SetProbe(p, e, pc, attempt) ==
    probes' = [probes EXCEPT ![p][e] = [pc |-> pc, attempt |-> attempt]]

probeFrame == <<enabled, weight, chains, isRunning, ctxDone, wg, mu, probers,
                launched, ticks, fwd, snap, hc>>

NoVerdict == [ep |-> "", healthy |-> FALSE, wasHealthy |-> FALSE, hadFailCount |-> 0]

\* A verdict that is written to every endpoint the process knows.
VerdictAllEndpoints(e, healthy) ==
    /\ endpoints' = [x \in EndpointIds |-> SetHealthy(endpoints[x], healthy)]
    /\ lastVerdict' = [ep |-> e, healthy |-> healthy,
                       wasHealthy |-> endpoints[e].Healthy,
                       hadFailCount |-> endpoints[e].FailCount]

\* A probe of endpoint e calls e.SetHealthy(healthy).
Verdict(e, healthy) ==
    /\ endpoints' = [endpoints EXCEPT ![e] = SetHealthy(@, healthy)]
    /\ lastVerdict' = [ep |-> e, healthy |-> healthy,
                       wasHealthy |-> endpoints[e].Healthy,
                       hadFailCount |-> endpoints[e].FailCount]

\* A retry loop that reports every failed attempt to the endpoint.
ProbeTransportErrorPerAttempt(p, e) ==
    /\ ProbeAt(p, e, "attempt")
    /\ IF probes[p][e].attempt + 1 < Retries
       THEN SetProbe(p, e, "backoff", probes[p][e].attempt + 1)
       ELSE SetProbe(p, e, "finalRt", probes[p][e].attempt + 1)
    /\ Verdict(e, FALSE)
    /\ UNCHANGED probeFrame

\* A retry loop that makes one attempt more than Retries.
ProbeTransportErrorExtraAttempt(p, e) ==
    /\ ProbeAt(p, e, "attempt")
    /\ IF probes[p][e].attempt + 1 <= Retries
       THEN /\ SetProbe(p, e, "backoff", probes[p][e].attempt + 1)
            /\ UNCHANGED <<endpoints, lastVerdict>>
       ELSE /\ SetProbe(p, e, "finalRt", probes[p][e].attempt + 1)
            /\ Verdict(e, FALSE)
    /\ UNCHANGED probeFrame

\* mc.client.Do(req) returns an error.  With attempts left the loop goes on
\* to its backoff; after the last attempt the loop ends and the
\* SetHealthy(false) below it runs.
ProbeTransportError(p, e) ==
    /\ ProbeAt(p, e, "attempt")
    /\ IF probes[p][e].attempt + 1 < Retries
       THEN /\ SetProbe(p, e, "backoff", probes[p][e].attempt + 1)
            /\ UNCHANGED <<endpoints, lastVerdict>>
       ELSE /\ SetProbe(p, e, "finalRt", probes[p][e].attempt + 1)
            /\ Verdict(e, FALSE)
    /\ UNCHANGED probeFrame

\* After the loop's SetHealthy(false): endpoint.SetResponseTime(responseTime).
ProbeFinalResponseTime(p, e) ==
    /\ ProbeAt(p, e, "finalRt")
    /\ \E rt \in ResponseTimes :
          endpoints' = [endpoints EXCEPT ![e] = SetResponseTime(@, rt)]
    /\ SetProbe(p, e, "resolved", 0)
    /\ UNCHANGED <<probeFrame, lastVerdict>>

\* The backoff select takes time.After(time.Second): the next attempt starts.
ProbeBackoffElapsed(p, e) ==
    /\ ProbeAt(p, e, "backoff")
    /\ ~ctxDone
    /\ SetProbe(p, e, "attempt", probes[p][e].attempt)
    /\ UNCHANGED <<endpoints, probeFrame, lastVerdict>>

\* The backoff select takes ctx.Done() (mc.ctx cancelled, or the pass's
\* timeout elapsed): SetHealthy(false) and return.
ProbeBackoffAborted(p, e) ==
    /\ ProbeAt(p, e, "backoff")
    /\ Verdict(e, FALSE)
    /\ SetProbe(p, e, "resolved", 0)
    /\ UNCHANGED probeFrame

\* mc.client.Do(req) returns a response (the context was not cancelled when
\* it arrived); processHealthCheckResponse starts with SetResponseTime.
ProbeResponse(p, e) ==
    /\ ProbeAt(p, e, "attempt")
    /\ ~ctxDone
    /\ \E rt \in ResponseTimes :
          endpoints' = [endpoints EXCEPT ![e] = SetResponseTime(@, rt)]
    /\ SetProbe(p, e, "process", 0)
    /\ UNCHANGED <<probeFrame, lastVerdict>>

\* processHealthCheckResponse on a response that does not pass:
\* SetHealthy(false), return true.
ProbeRejected(p, e) ==
    /\ ProbeAt(p, e, "process")
    /\ \E resp \in Responses : ~ProbePasses(resp)
    /\ Verdict(e, FALSE)
    /\ SetProbe(p, e, "resolved", 0)
    /\ UNCHANGED probeFrame

\* processHealthCheckResponse on a passing response: SetBlockNumber first.
ProbeAccepted(p, e) ==
    /\ ProbeAt(p, e, "process")
    /\ \E resp \in Responses :
          /\ ProbePasses(resp)
          /\ endpoints' = [endpoints EXCEPT
                ![e] = SetBlockNumber(@, BlockNumberOf(resp))]
    /\ SetProbe(p, e, "setHealthy", 0)
    /\ UNCHANGED <<probeFrame, lastVerdict>>

\* ... then SetHealthy(true), return true.
ProbeMarkHealthy(p, e) ==
    /\ ProbeAt(p, e, "setHealthy")
    /\ Verdict(e, TRUE)
    /\ SetProbe(p, e, "resolved", 0)
    /\ UNCHANGED probeFrame

\* ------------------------------ runChainHealthChecker, one prober goroutine
PassResolved(p) == \A e \in EndpointIds : probes[p][e].pc \in {"idle", "resolved"}

\* A pass that ends without waiting for its probes.
EndPassWithoutWait(p) ==
    /\ probers[p].pc = "pass"
    /\ mu # "Stop"
    /\ probers' = [probers EXCEPT ![p].pc = "select"]
    /\ probes' = [probes EXCEPT ![p] = NoProbes]
    /\ UNCHANGED <<enabled, weight, endpoints, chains, isRunning, ctxDone, wg,
                   mu, launched, ticks, lastVerdict, fwd, snap, hc>>

\* checkChainHealth after wg.Wait(): mc.GetHealthyEndpoints takes mc.mu.RLock
\* for the summary log line; the goroutine then waits in its select.
EndPass(p) ==
    /\ probers[p].pc = "pass"
    /\ PassResolved(p)
    /\ mu # "Stop"
    /\ probers' = [probers EXCEPT ![p].pc = "select"]
    /\ probes' = [probes EXCEPT ![p] = NoProbes]
    /\ UNCHANGED <<enabled, weight, endpoints, chains, isRunning, ctxDone, wg,
                   mu, launched, ticks, lastVerdict, fwd, snap, hc>>

\* The select takes ticker.C: another checkChainHealth.
ProberTick(p) ==
    /\ probers[p].pc = "select"
    /\ launched + ticks < MaxPasses
    /\ ticks' = ticks + 1
    /\ probers' = [probers EXCEPT ![p].pc = "pass"]
    /\ probes' = [probes EXCEPT ![p] = NewPass(probers[p].cfg)]
    /\ UNCHANGED <<enabled, weight, endpoints, chains, isRunning, ctxDone, wg,
                   mu, launched, lastVerdict, fwd, snap, hc>>

\* The select takes mc.ctx.Done(): return, and the deferred mc.wg.Done().
ProberExit(p) ==
    /\ probers[p].pc = "select"
    /\ ctxDone
    /\ probers' = [probers EXCEPT ![p] = ExitedProber]
    /\ wg' = wg - 1
    /\ UNCHANGED <<enabled, weight, endpoints, chains, isRunning, ctxDone, mu,
                   probes, launched, ticks, lastVerdict, fwd, snap, hc>>

ProbeStep(p, e) ==
    \/ ProbeTransportError(p, e)
    \/ ProbeFinalResponseTime(p, e)
    \/ ProbeBackoffElapsed(p, e)
    \/ ProbeBackoffAborted(p, e)
    \/ ProbeResponse(p, e)
    \/ ProbeRejected(p, e)
    \/ ProbeAccepted(p, e)
    \/ ProbeMarkHealthy(p, e)

ProberStep(p) == EndPass(p) \/ ProberTick(p) \/ ProberExit(p)

\* ------------------------------------------------------------ proxy.Server
\* A lookup that returns every configured endpoint, healthy or not.
GetHealthyEndpointsUnfiltered(chainName) ==
    IF chainName \notin DOMAIN chains \/ chains[chainName] = NoConfig
    THEN <<>>
    ELSE ConfigEndpoints(chains[chainName])

\* MultiChainChecker.GetHealthyEndpoints: the endpoints of the registered
\* config whose IsHealthy() holds, in configuration order; nil when the chain
\* name is not a key of mc.chains.
GetHealthyEndpoints(chainName) ==
    IF chainName \notin DOMAIN chains \/ chains[chainName] = NoConfig
    THEN <<>>
    ELSE SelectSeq(ConfigEndpoints(chains[chainName]), IsHealthy)

\* A comparison that also swaps two endpoints of equal weight.
OutOfOrderOrEqual(a, b) == weight[a] <= weight[b]

\* The comparison of the bubble sort: swap when the left weight is smaller.
OutOfOrder(a, b) == weight[a] < weight[b]

Swap(s, j) == [s EXCEPT ![j] = s[j + 1], ![j + 1] = s[j]]

\* The inner loop of the bubble sort, from position j up to position last.
RECURSIVE BubbleInner(_, _, _)
BubbleInner(s, j, last) ==
    IF j > last THEN s
    ELSE BubbleInner(IF OutOfOrder(s[j], s[j + 1]) THEN Swap(s, j) ELSE s,
                     j + 1, last)

\* The outer loop of the bubble sort, i counting the completed rounds.
RECURSIVE BubbleOuter(_, _)
BubbleOuter(s, i) ==
    IF i >= Len(s) - 1 THEN s
    ELSE BubbleOuter(BubbleInner(s, 1, Len(s) - i - 1), i + 1)

\* Server.getSortedEndpointsByWeight
getSortedEndpointsByWeight(eps) == BubbleOuter(eps, 0)

\* Inputs of one inbound call.
RequestChains == ChainNames \cup {"unknown"}

Methods == {"POST", "GET", "DELETE"}

\* Errors of an upstream call: the transport fails, or the caller's request
\* context is cancelled.
TransportErrors == {"timeout", "refused", "canceled"}

\* Status codes of the upstream's responses.
UpstreamStatuses == {200, 502}

NoReply == [kind |-> "none", status |-> 0, code |-> 0, message |-> <<>>,
            data |-> <<>>, id |-> "", from |-> ""]

\* http.Error(w, "Method not allowed", 405): a text/plain body.
MethodNotAllowed == [NoReply EXCEPT !.kind = "http_error", !.status = 405,
                                   !.message = <<"Method not allowed">>]

\* Server.writeErrorResponse: a JSON-RPC error envelope with "id": null,
\* written with HTTP status 200.
writeErrorResponse(code, message, data) ==
    [NoReply EXCEPT !.kind = "rpc_error", !.status = 200, !.code = code,
                    !.message = message, !.data = data, !.id = "null"]

\* The *http.Response returned by forwardRequest; the body is named by the
\* endpoint that sent it.
NoResponse == [status |-> 0, from |-> ""]

\* Server.copyResponse: the upstream's status and body, unmodified.
copyResponse(e, status) ==
    [NoReply EXCEPT !.kind = "upstream", !.status = status, !.from = e]

\* What io.ReadAll(r.Body) meets: a JSON-RPC request, bytes that are no
\* JSON, or a body whose read fails.
Bodies == {"json", "malformed", "unreadable"}

\* The handler's frame.  method, body and chain are its inputs; read
\* tells whether GetHealthyEndpoints was called and healthy is the slice it
\* returned; writes counts the responses written to the caller.
NoForward ==
    [pc |-> "idle", method |-> "", body |-> "json", chain |-> "",
     read |-> FALSE, healthy |-> <<>>, sorted |-> <<>>, calls |-> <<>>,
     lastErr |-> <<>>, resp |-> NoResponse, writes |-> 0, reply |-> NoReply]

forwardFrame == <<enabled, weight, endpoints, chains, isRunning, ctxDone, wg,
                  mu, probers, probes, launched, ticks, lastVerdict, snap, hc>>

\* The inputs of a call, as the handler receives them.
Inbound(chainName, method, body) ==
    [NoForward EXCEPT !.chain = chainName, !.method = method,
                      !.body = body]

\* A handler that tries every configured endpoint of the chain when none is
\* healthy.
ForwardBeginTryAll(chainName, method, body) ==
    /\ fwd.pc \in {"idle", "done"}
    /\ mu = "free"
    /\ LET healthy == GetHealthyEndpoints(chainName)
           all == IF chainName \in DOMAIN chains /\ chains[chainName] # NoConfig
                  THEN ConfigEndpoints(chains[chainName]) ELSE <<>>
       IN fwd' = [Inbound(chainName, method, body) EXCEPT
                     !.pc = IF Len(all) = 0 THEN "done" ELSE "forwarding",
                     !.read = TRUE, !.healthy = healthy,
                     !.sorted = getSortedEndpointsByWeight(
                                   IF Len(healthy) = 0 THEN all ELSE healthy)]
    /\ UNCHANGED forwardFrame

\* handleRPCForChain up to its retry loop: the method check, reading the
\* body, GetHealthyEndpoints (under mc.mu.RLock) and the sort of a copy.
ForwardBegin(chainName, method, body) ==
    /\ fwd.pc \in {"idle", "done"}
    /\ LET in == Inbound(chainName, method, body)
       IN IF method \notin {"POST", "GET"}
          THEN fwd' = [in EXCEPT !.pc = "done", !.writes = 1,
                                 !.reply = MethodNotAllowed]
          ELSE IF body = "unreadable"
          THEN fwd' = [in EXCEPT !.pc = "done", !.writes = 1,
                  !.reply = writeErrorResponse(-32700, <<"Parse error">>, <<>>)]
          ELSE /\ mu # "Stop"
               /\ LET healthy == GetHealthyEndpoints(chainName)
                  IN IF Len(healthy) = 0
                     THEN fwd' = [in EXCEPT !.pc = "done", !.read = TRUE,
                             !.healthy = healthy, !.writes = 1,
                             !.reply = writeErrorResponse(-32000,
                                 <<"No healthy RPC endpoints available for chain: ",
                                   chainName>>, <<>>)]
                     ELSE fwd' = [in EXCEPT !.pc = "forwarding", !.read = TRUE,
                             !.healthy = healthy,
                             !.sorted = getSortedEndpointsByWeight(healthy)]
    /\ UNCHANGED forwardFrame

\* One upstream HTTP call and how it ended: a transport error or "response".
Call(e, result) == [ep |-> e, result |-> result]

\* The endpoint the retry loop is at.
CurrentEndpoint == fwd.sorted[Len(fwd.calls) + 1]

\* The caller's request context was cancelled during an earlier attempt; every
\* later client.Do on that context fails at once.
Canceled == \E i \in DOMAIN fwd.calls : fwd.calls[i].result = "canceled"

\* A failed forward that marks the endpoint down.
ForwardAttemptFailsPenalised(err) ==
    /\ fwd.pc = "forwarding"
    /\ Canceled => err = "canceled"
    /\ LET e == CurrentEndpoint
           lastErr == <<err, e>>
       IN /\ fwd' = [fwd EXCEPT !.calls = Append(@, Call(e, err)),
                  !.lastErr = lastErr,
                  !.pc = IF Len(fwd.calls) + 1 < Len(fwd.sorted)
                         THEN "forwarding" ELSE "done",
                  !.writes = IF Len(fwd.calls) + 1 < Len(fwd.sorted)
                             THEN @ ELSE @ + 1,
                  !.reply = IF Len(fwd.calls) + 1 < Len(fwd.sorted) THEN @
                            ELSE writeErrorResponse(-32000,
                                   <<"All RPC endpoints failed">>, lastErr)]
          /\ endpoints' = [endpoints EXCEPT ![e] = SetHealthy(@, FALSE)]
    /\ UNCHANGED <<enabled, weight, chains, isRunning, ctxDone, wg, mu, probers,
                   probes, launched, ticks, lastVerdict, snap, hc>>

\* A loop that reports the first error it met, not the last.
ForwardAttemptFailsKeepsFirstError(err) ==
    /\ fwd.pc = "forwarding"
    /\ Canceled => err = "canceled"
    /\ LET e == CurrentEndpoint
           lastErr == IF fwd.lastErr = <<>> THEN <<err, e>> ELSE fwd.lastErr
       IN IF Len(fwd.calls) + 1 < Len(fwd.sorted)
          THEN fwd' = [fwd EXCEPT !.calls = Append(@, Call(e, err)),
                                  !.lastErr = lastErr]
          ELSE fwd' = [fwd EXCEPT !.calls = Append(@, Call(e, err)),
                  !.lastErr = lastErr,
                  !.pc = "done",
                  !.writes = @ + 1,
                  !.reply = writeErrorResponse(-32000,
                               <<"All RPC endpoints failed">>, lastErr)]
    /\ UNCHANGED forwardFrame

\* A loop that gives its last endpoint a second try before giving up.
ForwardAttemptFailsTriesTwice(err) ==
    /\ fwd.pc = "forwarding"
    /\ Canceled => err = "canceled"
    /\ LET e == CurrentEndpoint
           lastErr == <<err, e>>
       IN IF Len(fwd.calls) + 1 < Len(fwd.sorted)
          THEN fwd' = [fwd EXCEPT !.calls = Append(@, Call(e, err)),
                                  !.lastErr = lastErr]
          ELSE fwd' = [fwd EXCEPT
                  !.calls = Append(Append(@, Call(e, err)), Call(e, err)),
                  !.lastErr = lastErr,
                  !.pc = "done",
                  !.writes = @ + 1,
                  !.reply = writeErrorResponse(-32000,
                               <<"All RPC endpoints failed">>, lastErr)]
    /\ UNCHANGED forwardFrame

\* forwardRequest returns an error: lastErr = err; continue.  After the last
\* endpoint the loop ends and the "All RPC endpoints failed" envelope is
\* written with lastErr.Error() as its data.
ForwardAttemptFails(err) ==
    /\ fwd.pc = "forwarding"
    /\ Canceled => err = "canceled"
    /\ LET e == CurrentEndpoint
           lastErr == <<err, e>>
       IN IF Len(fwd.calls) + 1 < Len(fwd.sorted)
          THEN fwd' = [fwd EXCEPT !.calls = Append(@, Call(e, err)),
                                  !.lastErr = lastErr]
          ELSE fwd' = [fwd EXCEPT !.calls = Append(@, Call(e, err)),
                  !.lastErr = lastErr,
                  !.pc = "done",
                  !.writes = @ + 1,
                  !.reply = writeErrorResponse(-32000,
                               <<"All RPC endpoints failed">>, lastErr)]
    /\ UNCHANGED forwardFrame

\* A loop that copies the response but does not return.
ForwardAttemptRespondsNoReturn(status) ==
    /\ fwd.pc = "forwarding"
    /\ fwd' = [fwd EXCEPT !.calls = Append(@, Call(CurrentEndpoint, "response")),
                          !.pc = IF Len(fwd.calls) + 1 < Len(fwd.sorted)
                                 THEN "forwarding" ELSE "done",
                          !.resp = [status |-> status, from |-> CurrentEndpoint],
                          !.writes = @ + 1,
                          !.reply = copyResponse(CurrentEndpoint, status)]
    /\ UNCHANGED forwardFrame

\* A loop that treats a 5xx response as one more failed attempt.
ForwardAttemptRespondsRetryOn5xx(status) ==
    /\ fwd.pc = "forwarding"
    /\ ~Canceled
    /\ LET e == CurrentEndpoint
           more == Len(fwd.calls) + 1 < Len(fwd.sorted)
       IN IF status >= 500 /\ more
          THEN fwd' = [fwd EXCEPT !.calls = Append(@, Call(e, "response")),
                                  !.resp = [status |-> status, from |-> e]]
          ELSE fwd' = [fwd EXCEPT !.calls = Append(@, Call(e, "response")),
                                  !.pc = "done",
                                  !.resp = [status |-> status, from |-> e],
                                  !.writes = @ + 1,
                                  !.reply = copyResponse(e, status)]
    /\ UNCHANGED forwardFrame

\* forwardRequest returns a response: copyResponse and return.
ForwardAttemptResponds(status) ==
    /\ fwd.pc = "forwarding"
    /\ ~Canceled
    /\ fwd' = [fwd EXCEPT !.calls = Append(@, Call(CurrentEndpoint, "response")),
                          !.pc = "done",
                          !.resp = [status |-> status, from |-> CurrentEndpoint],
                          !.writes = @ + 1,
                          !.reply = copyResponse(CurrentEndpoint, status)]
    /\ UNCHANGED forwardFrame

\* ------------------------------------ MultiChainChecker.GetChainStatus
\* No status call is being served.
NoStatus ==
    [Chain |-> NoConfig, HealthyEndpoints |-> <<>>, UnhealthyEndpoints |-> <<>>,
     TotalEndpoints |-> 0, HealthyCount |-> 0, CurrentRPC |-> ""]

\* No MultiChainHealthStatus has been built.
NoMultiStatus ==
    [Chains |-> {}, TotalChains |-> 0, HealthyChains |-> 0, Proxy |-> ""]

\* The frame of a health request: the GetChainStatus call of
\* handleChainHealth with the locals of getChainHealthStatus and the status
\* it returned, or the status handleMultiChainHealth got from
\* GetMultiChainStatus; http is the status code written to the caller.
NoSnapshot ==
    [pc |-> "idle", chainName |-> "", cfg |-> NoConfig, index |-> 0,
     healthyEndpoints |-> <<>>, unhealthyEndpoints |-> <<>>, currentRPC |-> "",
     status |-> NoStatus, multi |-> NoMultiStatus, http |-> 0]

snapshotFrame == <<enabled, weight, endpoints, chains, isRunning, ctxDone, wg,
                   probers, probes, launched, ticks, lastVerdict, fwd, hc>>

\* A caller enters GetChainStatus(chainName) and reaches mc.mu.RLock().
SnapshotCall(chainName) ==
    /\ snap.pc \in {"idle", "done"}
    /\ snap' = [NoSnapshot EXCEPT !.pc = "rlock", !.chainName = chainName]
    /\ UNCHANGED <<snapshotFrame, mu>>

\* mc.mu.RLock() is granted (no writer holds mc.mu) and mc.chains is looked
\* up: nil for an absent name, releasing the lock, and handleChainHealth
\* answers 404; otherwise getChainHealthStatus starts its loop with the lock
\* held.
SnapshotRLock ==
    /\ snap.pc = "rlock"
    /\ mu = "free"
    /\ IF snap.chainName \in ChainNames /\ IsRegistered(snap.chainName)
       THEN /\ snap' = [snap EXCEPT !.pc = "reading", !.index = 1,
                                    !.cfg = chains[snap.chainName]]
            /\ mu' = "RLock"
       ELSE /\ snap' = [snap EXCEPT !.pc = "done", !.http = 404]
            /\ mu' = mu
    /\ UNCHANGED snapshotFrame

\* A loop body that lets every healthy enabled endpoint replace currentRPC.
SnapshotReadLastWins ==
    /\ snap.pc = "reading"
    /\ snap.index <= Len(ConfigEndpoints(snap.cfg))
    /\ LET e == ConfigEndpoints(snap.cfg)[snap.index]
       IN IF IsHealthy(e)
          THEN snap' = [snap EXCEPT
                  !.index = @ + 1,
                  !.healthyEndpoints = Append(@, e),
                  !.currentRPC = IF enabled[e] THEN e ELSE @]
          ELSE snap' = [snap EXCEPT
                  !.index = @ + 1,
                  !.unhealthyEndpoints = Append(@, e)]
    /\ UNCHANGED <<snapshotFrame, mu>>

\* One iteration of getChainHealthStatus's loop: one endpoint.IsHealthy()
\* read (under the endpoint's own lock) decides the list the endpoint joins.
SnapshotRead ==
    /\ snap.pc = "reading"
    /\ snap.index <= Len(ConfigEndpoints(snap.cfg))
    /\ LET e == ConfigEndpoints(snap.cfg)[snap.index]
       IN IF IsHealthy(e)
          THEN snap' = [snap EXCEPT
                  !.index = @ + 1,
                  !.healthyEndpoints = Append(@, e),
                  !.currentRPC = IF @ = "" /\ enabled[e] THEN e ELSE @]
          ELSE snap' = [snap EXCEPT
                  !.index = @ + 1,
                  !.unhealthyEndpoints = Append(@, e)]
    /\ UNCHANGED <<snapshotFrame, mu>>

\* getChainHealthStatus builds the ChainHealthStatus and GetChainStatus
\* returns it, releasing mc.mu.
SnapshotReturn ==
    /\ snap.pc = "reading"
    /\ snap.index > Len(ConfigEndpoints(snap.cfg))
    /\ snap' = [snap EXCEPT
          !.pc = "done",
          !.status = [Chain |-> snap.cfg,
                      HealthyEndpoints |-> snap.healthyEndpoints,
                      UnhealthyEndpoints |-> snap.unhealthyEndpoints,
                      TotalEndpoints |-> Len(ConfigEndpoints(snap.cfg)),
                      HealthyCount |-> Len(snap.healthyEndpoints),
                      CurrentRPC |-> snap.currentRPC],
          !.http = IF Len(snap.healthyEndpoints) = 0 THEN 503 ELSE 200]
    /\ mu' = "free"
    /\ UNCHANGED snapshotFrame

\* getChainHealthStatus(...).HealthyCount of a config: the endpoints whose
\* IsHealthy() holds.
HealthyCount(cfg) ==
    Cardinality({i \in DOMAIN ConfigEndpoints(cfg) :
                    IsHealthy(ConfigEndpoints(cfg)[i])})

\* A status that counts every registered chain as healthy.
GetMultiChainStatusCountsAll ==
    LET n == Len(RegisteredChains)
    IN [Chains |-> Range(RegisteredChains),
        TotalChains |-> n,
        HealthyChains |-> n,
        Proxy |-> IF n > 0 THEN "healthy" ELSE "unhealthy"]

\* MultiChainChecker.GetMultiChainStatus: one entry per key of mc.chains,
\* HealthyChains counting the entries whose HealthyCount is positive.
GetMultiChainStatus ==
    LET healthyChains ==
           Cardinality({i \in DOMAIN RegisteredChains :
                           HealthyCount(chains[RegisteredChains[i]]) > 0})
    IN [Chains |-> Range(RegisteredChains),
        TotalChains |-> Len(RegisteredChains),
        HealthyChains |-> healthyChains,
        Proxy |-> IF healthyChains > 0 THEN "healthy" ELSE "unhealthy"]

\* Server.handleMultiChainHealth on a GET: GetMultiChainStatus under
\* mc.mu.RLock, then 503 when no chain is healthy.
handleMultiChainHealth ==
    /\ snap.pc \in {"idle", "done"}
    /\ mu = "free"
    /\ LET st == GetMultiChainStatus
       IN snap' = [NoSnapshot EXCEPT
                      !.pc = "done",
                      !.multi = st,
                      !.http = IF st.HealthyChains = 0 THEN 503 ELSE 200]
    /\ UNCHANGED <<snapshotFrame, mu>>

\* ------------------------------------------------------- health.Checker
\* hc.endpoints: the slice handed to NewChecker.
CheckerEndpoints == <<"e1", "e2">>

\* The healthCheckLoop goroutines, by the Start call that launched them.
LoopIds == 1..MaxPasses

\* Number of performHealthCheck passes ever begun: enough for one passing
\* check followed by Retries failed ones.
MaxChecks == Retries + 1

\* The answers a check meets: a status other than 200, an RPC error, and a
\* block number.
CheckerResponses ==
    { [status |-> 500, body |-> "string",    result |-> <<"0","x","1","0">>],
      [status |-> 200, body |-> "rpc_error", result |-> <<"0","x","1","0">>],
      [status |-> 200, body |-> "string",    result |-> <<"0","x","1","0">>] }

\* checkEndpoint ends in markHealthy on this answer.
CheckSucceeds(resp) == resp.status = 200 /\ resp.body = "string"

\* NewChecker: not running, stopChan made and open, no goroutine.  loops is
\* the position of each healthCheckLoop goroutine, checks the position of
\* the checkEndpoint goroutines of its pass; fails is a history: the failed
\* checks of each endpoint since its last successful one.
NoChecker ==
    [running  |-> FALSE,
     stopChan |-> "open",
     panicked |-> FALSE,
     loops    |-> [l \in LoopIds |-> "unused"],
     checks   |-> [l \in LoopIds |-> [e \in Range(CheckerEndpoints) |-> "idle"]],
     started  |-> 0,
     passes   |-> 0,
     fails    |-> [e \in Range(CheckerEndpoints) |-> 0]]

checkerFrame == <<enabled, weight, chains, isRunning, ctxDone, wg, mu, probers,
                  probes, launched, ticks, lastVerdict, fwd, snap>>

\* performHealthCheck starts one goroutine per endpoint of hc.endpoints.
PassBegun == [e \in Range(CheckerEndpoints) |-> "checking"]

\* Checker.Start: running is set and healthCheckLoop is launched; the loop
\* begins with performHealthCheck.
CheckerStart ==
    /\ ~hc.panicked
    /\ ~hc.running
    /\ hc.started < MaxPasses
    /\ hc.passes < MaxChecks
    /\ hc' = [hc EXCEPT !.running = TRUE,
                        !.started = @ + 1,
                        !.passes = @ + 1,
                        !.loops[hc.started + 1] = "pass",
                        !.checks[hc.started + 1] = PassBegun]
    /\ UNCHANGED <<checkerFrame, endpoints>>

\* Checker.Start while running: returns.
CheckerStartWhileRunning ==
    /\ ~hc.panicked
    /\ hc.running
    /\ UNCHANGED vars

\* Checker.Stop: running is cleared and close(hc.stopChan) is called; the
\* channel is the one NewChecker made, and closing a closed channel panics.
\* Stop returns without waiting for the loop.
CheckerStop ==
    /\ ~hc.panicked
    /\ hc.running
    /\ hc' = [hc EXCEPT !.running = FALSE,
                        !.stopChan = "closed",
                        !.panicked = (hc.stopChan = "closed")]
    /\ UNCHANGED <<checkerFrame, endpoints>>

\* Checker.Stop while not running: returns.
CheckerStopWhileStopped ==
    /\ ~hc.panicked
    /\ ~hc.running
    /\ UNCHANGED vars

\* One checkEndpoint goroutine gets an answer and hands it to markHealthy or
\* markUnhealthy.
CheckResponse(l, e, resp, rt) ==
    /\ ~hc.panicked
    /\ hc.checks[l][e] = "checking"
    /\ endpoints' = [endpoints EXCEPT ![e] = checkEndpoint(@, resp, rt)]
    /\ hc' = [hc EXCEPT !.checks[l][e] = "resolved",
                        !.fails[e] = IF CheckSucceeds(resp) THEN 0 ELSE @ + 1]
    /\ UNCHANGED checkerFrame

\* hc.client.Do returns an error: markUnhealthy(endpoint, 0, "").
CheckTransportError(l, e) ==
    /\ ~hc.panicked
    /\ hc.checks[l][e] = "checking"
    /\ endpoints' = [endpoints EXCEPT ![e] = markUnhealthy(@, 0, <<>>)]
    /\ hc' = [hc EXCEPT !.checks[l][e] = "resolved", !.fails[e] = @ + 1]
    /\ UNCHANGED checkerFrame

\* performHealthCheck returns from wg.Wait(): the loop is at its select.
performHealthCheckReturns(l) ==
    /\ ~hc.panicked
    /\ hc.loops[l] = "pass"
    /\ \A e \in Range(CheckerEndpoints) : hc.checks[l][e] = "resolved"
    /\ hc' = [hc EXCEPT !.loops[l] = "select",
                        !.checks[l] = [e \in Range(CheckerEndpoints) |-> "idle"]]
    /\ UNCHANGED <<checkerFrame, endpoints>>

\* The select takes ticker.C (it may, even with stopChan closed).
LoopTick(l) ==
    /\ ~hc.panicked
    /\ hc.loops[l] = "select"
    /\ hc.passes < MaxChecks
    /\ hc' = [hc EXCEPT !.loops[l] = "pass", !.passes = @ + 1,
                        !.checks[l] = PassBegun]
    /\ UNCHANGED <<checkerFrame, endpoints>>

\* The select takes hc.stopChan, which is closed: the loop returns.
LoopExit(l) ==
    /\ ~hc.panicked
    /\ hc.loops[l] = "select"
    /\ hc.stopChan = "closed"
    /\ hc' = [hc EXCEPT !.loops[l] = "exited"]
    /\ UNCHANGED <<checkerFrame, endpoints>>

\* ----------------------------------------------------------- specification

\* NewMultiChainChecker over the configured chain: nothing runs yet, and the
\* runtime fields of every endpoint hold their zero values.
Init ==
    /\ enabled = [e \in EndpointIds |-> e \in {"e1", "e4"}]
    /\ weight = [e \in EndpointIds |-> 1]
    /\ endpoints = [e \in EndpointIds |-> ZeroRuntime]
    /\ chains = CreateMultiChainHealthChecker
    /\ isRunning = FALSE
    /\ ctxDone = FALSE
    /\ wg = 0
    /\ mu = "free"
    /\ probers = [p \in ProberIds |-> NoProber]
    /\ probes = [p \in ProberIds |-> NoProbes]
    /\ launched = 0
    /\ ticks = 0
    /\ lastVerdict = NoVerdict
    /\ fwd = NoForward
    /\ snap = NoSnapshot
    /\ hc = NoChecker

Next ==
    \/ Start
    \/ StartWhileRunning
    \/ StopBegin
    \/ StopWhileStopped
    \/ StopReturn
    \/ \E n \in ChainNames : AddChain(n, ConfigFor(n))
    \/ \E n \in ChainNames : RemoveChain(n)
    \/ \E p \in ProberIds, e \in EndpointIds : ProbeStep(p, e)
    \/ \E p \in ProberIds : ProberStep(p)

Spec == Init /\ [][Next]_vars

\* The goroutines are scheduled fairly: a probe or prober step that stays
\* possible is taken, a select whose ctx.Done() case is ready again and again
\* takes it, and Stop returns once its wait is over.
Fairness ==
    /\ \A p \in ProberIds, e \in EndpointIds : WF_vars(ProbeStep(p, e))
    /\ \A p \in ProberIds : WF_vars(EndPass(p)) /\ SF_vars(ProberExit(p))
    /\ WF_vars(StopReturn)

FairSpec == Init /\ [][Next]_vars /\ Fairness

\* The runtime fields of an endpoint whose last probe passed.
HealthyRuntime ==
    [Healthy |-> TRUE, LastCheck |-> 1, ResponseTime |-> 7,
     BlockNumber |-> <<"1", "6">>, FailCount |-> 0]

\* The runtime fields of an endpoint whose only probe so far failed.
FailedRuntime ==
    [Healthy |-> FALSE, LastCheck |-> 1, ResponseTime |-> 7,
     BlockNumber |-> <<>>, FailCount |-> 1]

\* The forwarder's inputs: the chain "ethereum" with three enabled endpoints
\* of any weights, its prober waiting between two passes after an initial
\* pass in which each endpoint passed or failed; "sepolia" is not registered.
\* No probe runs during the calls (the history of verdicts is not kept).
InitForward ==
    /\ enabled = [e \in EndpointIds |-> TRUE]
    /\ weight \in [EndpointIds -> 1..MaxWeight]
    /\ weight["e4"] = 1
    /\ endpoints \in [EndpointIds -> {ZeroRuntime, HealthyRuntime, FailedRuntime}]
    /\ endpoints["e4"] = ZeroRuntime
    /\ \A e \in Range(ConfigEndpoints("cfgEth")) : endpoints[e] # ZeroRuntime
    /\ chains = [n \in ChainNames |-> IF n = "ethereum" THEN "cfgEth" ELSE NoConfig]
    /\ isRunning = TRUE
    /\ ctxDone = FALSE
    /\ wg = 1
    /\ mu = "free"
    /\ probers = [p \in ProberIds |->
          IF p = 1 THEN [pc |-> "select", chainName |-> "ethereum", cfg |-> "cfgEth"]
          ELSE NoProber]
    /\ probes = [p \in ProberIds |-> NoProbes]
    /\ launched = 1
    /\ ticks = 0
    /\ lastVerdict = NoVerdict
    /\ fwd = NoForward
    /\ snap = NoSnapshot
    /\ hc = NoChecker

NextForward ==
    \/ \E n \in RequestChains, m \in Methods, b \in Bodies : ForwardBegin(n, m, b)
    \/ \E err \in TransportErrors : ForwardAttemptFails(err)
    \/ \E st \in UpstreamStatuses : ForwardAttemptResponds(st)

SpecForward == InitForward /\ [][NextForward]_vars

\* s.client has a Timeout, so every forwardRequest returns: the call the
\* loop is at ends, with an error or with a response.
FairnessForward ==
    WF_vars(\/ \E err \in TransportErrors : ForwardAttemptFails(err)
            \/ \E st \in UpstreamStatuses : ForwardAttemptResponds(st))

FairSpecForward == InitForward /\ [][NextForward]_vars /\ FairnessForward

\* The runtime fields of an endpoint that passed a probe and then failed k
\* passes in a row.
FailedAfter(k) ==
    [Healthy |-> FALSE, LastCheck |-> k + 1, ResponseTime |-> 7,
     BlockNumber |-> <<"1", "6">>, FailCount |-> k]

\* The checker of the chain "ethereum" with the endpoints A = "e1" of weight 3
\* and B = "e2" of weight 2 enabled and "e3" disabled, serving inbound calls
\* while it probes.  It is either not started yet, every endpoint in its zero
\* state, or running between two passes, A and B each having passed its last
\* probe or failed its last passes.
InitRoute ==
    /\ enabled = [e \in EndpointIds |-> e # "e3"]
    /\ weight = [e \in EndpointIds |-> IF e = "e1" THEN 3 ELSE 2]
    /\ chains = [n \in ChainNames |-> IF n = "ethereum" THEN "cfgEth" ELSE NoConfig]
    /\ ctxDone = FALSE
    /\ mu = "free"
    /\ probes = [p \in ProberIds |-> NoProbes]
    /\ ticks = 0
    /\ lastVerdict = NoVerdict
    /\ fwd = NoForward
    /\ snap = NoSnapshot
    /\ hc = NoChecker
    /\ \/ /\ isRunning = FALSE
          /\ wg = 0
          /\ launched = 0
          /\ probers = [p \in ProberIds |-> NoProber]
          /\ endpoints = [e \in EndpointIds |-> ZeroRuntime]
       \/ /\ isRunning = TRUE
          /\ wg = 1
          /\ launched = 1
          /\ probers = [p \in ProberIds |->
                IF p = 1
                THEN [pc |-> "select", chainName |-> "ethereum", cfg |-> "cfgEth"]
                ELSE NoProber]
          /\ \E a \in {HealthyRuntime} \cup {FailedAfter(k) : k \in 1..Retries},
                b \in {HealthyRuntime, FailedAfter(1)} :
                endpoints = [e \in EndpointIds |->
                    IF e = "e1" THEN a ELSE IF e = "e2" THEN b ELSE ZeroRuntime]

\* The steps of a running checker that is not being stopped, and of the
\* handler of inbound calls.
NextRoute ==
    \/ Start
    \/ \E p \in ProberIds, e \in EndpointIds :
          \/ ProbeTransportError(p, e)
          \/ ProbeFinalResponseTime(p, e)
          \/ ProbeBackoffElapsed(p, e)
          \/ ProbeResponse(p, e)
          \/ ProbeRejected(p, e)
          \/ ProbeAccepted(p, e)
          \/ ProbeMarkHealthy(p, e)
    \/ \E p \in ProberIds : EndPass(p) \/ ProberTick(p)
    \/ \E n \in RequestChains, m \in Methods, b \in {"json", "unreadable"} : ForwardBegin(n, m, b)
    \/ \E err \in TransportErrors : ForwardAttemptFails(err)
    \/ \E st \in UpstreamStatuses : ForwardAttemptResponds(st)

SpecRoute == InitRoute /\ [][NextRoute]_vars

\* The registry and its readers.  The checker has run and has been stopped:
\* e1 and e2 each passed or failed their last probe, the prober has returned.
\* Chains are removed and added, calls are forwarded and health is
\* requested, in any order.
InitRegistry ==
    /\ enabled = [e \in EndpointIds |-> e # "e3"]
    /\ weight = [e \in EndpointIds |-> 1]
    /\ endpoints \in [EndpointIds -> {ZeroRuntime, HealthyRuntime, FailedRuntime}]
    /\ \A e \in {"e1", "e2"} : endpoints[e] # ZeroRuntime
    /\ \A e \in {"e3", "e4"} : endpoints[e] = ZeroRuntime
    /\ chains = CreateMultiChainHealthChecker
    /\ isRunning = FALSE
    /\ ctxDone = TRUE
    /\ wg = 0
    /\ mu = "free"
    /\ probers = [p \in ProberIds |-> IF p = 1 THEN ExitedProber ELSE NoProber]
    /\ probes = [p \in ProberIds |-> NoProbes]
    /\ launched = 1
    /\ ticks = 0
    /\ lastVerdict = NoVerdict
    /\ fwd = NoForward
    /\ snap = NoSnapshot
    /\ hc = NoChecker

NextRegistry ==
    \/ \E n \in ChainNames : AddChain(n, ConfigFor(n))
    \/ \E n \in ChainNames : RemoveChain(n)
    \/ \E n \in RequestChains : ForwardBegin(n, "POST", "json")
    \/ \E err \in TransportErrors : ForwardAttemptFails(err)
    \/ \E st \in UpstreamStatuses : ForwardAttemptResponds(st)
    \/ \E n \in RequestChains : SnapshotCall(n)
    \/ SnapshotRLock
    \/ SnapshotRead
    \/ SnapshotReturn
    \/ handleMultiChainHealth

SpecRegistry == InitRegistry /\ [][NextRegistry]_vars

\* Two chains side by side: "sepolia" has been added to the running checker,
\* and the probers of both chains are in their initial pass.  Only the
\* goroutines of the passes take steps.
InitChains ==
    /\ enabled = [e \in EndpointIds |-> e \in {"e1", "e4"}]
    /\ weight = [e \in EndpointIds |-> 1]
    /\ endpoints = [e \in EndpointIds |-> ZeroRuntime]
    /\ chains = [n \in ChainNames |-> ConfigFor(n)]
    /\ isRunning = TRUE
    /\ ctxDone = FALSE
    /\ wg = 2
    /\ mu = "free"
    /\ probers = [p \in ProberIds |->
          IF p = 1 THEN [pc |-> "pass", chainName |-> "ethereum", cfg |-> "cfgEth"]
          ELSE IF p = 2 THEN [pc |-> "pass", chainName |-> "sepolia", cfg |-> "cfgSep"]
          ELSE NoProber]
    /\ probes = [p \in ProberIds |->
          IF p = 1 THEN NewPass("cfgEth")
          ELSE IF p = 2 THEN NewPass("cfgSep")
          ELSE NoProbes]
    /\ launched = 2
    /\ ticks = 0
    /\ lastVerdict = NoVerdict
    /\ fwd = NoForward
    /\ snap = NoSnapshot
    /\ hc = NoChecker

NextChains ==
    \/ \E p \in ProberIds, e \in EndpointIds : ProbeStep(p, e)
    \/ \E p \in ProberIds : EndPass(p)

\* A probe step or the end of a pass that stays possible is taken.
FairSpecChains ==
    /\ InitChains
    /\ [][NextChains]_vars
    /\ \A p \in ProberIds, e \in EndpointIds : WF_vars(ProbeStep(p, e))
    /\ \A p \in ProberIds : WF_vars(EndPass(p))

\* The single-chain checker alone, over endpoints with zero runtime fields.
NextChecker ==
    \/ CheckerStart
    \/ CheckerStartWhileRunning
    \/ CheckerStop
    \/ CheckerStopWhileStopped
    \/ \E l \in LoopIds, e \in Range(CheckerEndpoints), rt \in ResponseTimes :
          \E resp \in CheckerResponses : CheckResponse(l, e, resp, rt)
    \/ \E l \in LoopIds, e \in Range(CheckerEndpoints) : CheckTransportError(l, e)
    \/ \E l \in LoopIds : performHealthCheckReturns(l)
    \/ \E l \in LoopIds : LoopTick(l)
    \/ \E l \in LoopIds : LoopExit(l)

SpecChecker == Init /\ [][NextChecker]_vars

\* One probe of e1 after another, each judged from entry to return with
\* nothing else running, by the multi-chain checker or by the single-chain
\* checker, on any of the answers of ProbeInputs or on a transport error.
\* lastVerdict keeps the answer that the latest probe judged.
ProbeInputs ==
    Responses \cup
    { [status |-> 200, body |-> "string",    result |-> <<"0","x","0">>],
      [status |-> 200, body |-> "string",    result |-> <<"0","x","f","f">>],
      [status |-> 200, body |-> "string",    result |-> <<"0","x","1","f","4">>],
      [status |-> 200, body |-> "string",    result |-> <<"0","x","-","1","0">>],
      [status |-> 200, body |-> "string",    result |-> <<"0","x","-">>],
      [status |-> 200, body |-> "string",    result |-> <<>>],
      [status |-> 200, body |-> "string",    result |-> <<"f","f">>],
      [status |-> 404, body |-> "malformed", result |-> <<>>] }

\* No response arrived: client.Do returned an error.
TransportError == [status |-> 0, body |-> "transport_error", result |-> <<>>]

Judged(e, resp, by) ==
    lastVerdict' = [ep |-> e, healthy |-> endpoints'[e].Healthy,
                    wasHealthy |-> endpoints[e].Healthy,
                    hadFailCount |-> endpoints[e].FailCount,
                    resp |-> resp, by |-> by]

probeOnceFrame == <<enabled, weight, chains, isRunning, ctxDone, wg, mu, probers,
                    probes, launched, fwd, snap, hc>>

MultiChainProbe(e, resp, rt) ==
    /\ ticks < MaxPasses
    /\ ticks' = ticks + 1
    /\ endpoints' = [endpoints EXCEPT ![e] = processHealthCheckResponse(@, resp, rt)]
    /\ Judged(e, resp, "MultiChainChecker")
    /\ UNCHANGED probeOnceFrame

\* checkEndpointHealth when every attempt ends in a transport error.
MultiChainTransportError(e, rt) ==
    /\ ticks < MaxPasses
    /\ ticks' = ticks + 1
    /\ endpoints' = [endpoints EXCEPT ![e] = SetResponseTime(SetHealthy(@, FALSE), rt)]
    /\ Judged(e, TransportError, "MultiChainChecker")
    /\ UNCHANGED probeOnceFrame

SingleChainProbe(e, resp, rt) ==
    /\ ticks < MaxPasses
    /\ ticks' = ticks + 1
    /\ endpoints' = [endpoints EXCEPT ![e] = checkEndpoint(@, resp, rt)]
    /\ Judged(e, resp, "Checker")
    /\ UNCHANGED probeOnceFrame

\* Checker.checkEndpoint when client.Do returns an error.
SingleChainTransportError(e) ==
    /\ ticks < MaxPasses
    /\ ticks' = ticks + 1
    /\ endpoints' = [endpoints EXCEPT ![e] = markUnhealthy(@, 0, <<>>)]
    /\ Judged(e, TransportError, "Checker")
    /\ UNCHANGED probeOnceFrame

NextProbe ==
    \/ \E resp \in ProbeInputs, rt \in ResponseTimes : MultiChainProbe("e1", resp, rt)
    \/ \E rt \in ResponseTimes : MultiChainTransportError("e1", rt)
    \/ \E resp \in ProbeInputs, rt \in ResponseTimes : SingleChainProbe("e1", resp, rt)
    \/ SingleChainTransportError("e1")

SpecProbe == Init /\ [][NextProbe]_vars

\* Status calls against the running checker.  "ethereum" is registered with
\* e1 and e2 enabled and e3 disabled; nothing runs yet.  The checker is
\* started and stopped, its passes run, and GetChainStatus is called at any
\* moment for a registered or an unknown chain name.
InitSnapshot ==
    /\ enabled = [e \in EndpointIds |-> e # "e3"]
    /\ weight = [e \in EndpointIds |-> 1]
    /\ endpoints = [e \in EndpointIds |-> ZeroRuntime]
    /\ chains = CreateMultiChainHealthChecker
    /\ isRunning = FALSE
    /\ ctxDone = FALSE
    /\ wg = 0
    /\ mu = "free"
    /\ probers = [p \in ProberIds |-> NoProber]
    /\ probes = [p \in ProberIds |-> NoProbes]
    /\ launched = 0
    /\ ticks = 0
    /\ lastVerdict = NoVerdict
    /\ fwd = NoForward
    /\ snap = NoSnapshot
    /\ hc = NoChecker

NextSnapshot ==
    \/ Start
    \/ StopBegin
    \/ StopReturn
    \/ \E p \in ProberIds, e \in EndpointIds : ProbeStep(p, e)
    \/ \E p \in ProberIds : ProberStep(p)
    \/ \E n \in RequestChains : SnapshotCall(n)
    \/ SnapshotRLock
    \/ SnapshotRead
    \/ SnapshotReturn

SpecSnapshot == InitSnapshot /\ [][NextSnapshot]_vars


\* ------------------------------------------------------------------ claims
\* A step in which the probe of e run by prober p reaches a failing verdict:
\* the last attempt errs, the backoff is cut short, or the response is
\* rejected.
FailedResolution(p, e) ==
    \/ ProbeAt(p, e, "attempt") /\ probes'[p][e].pc = "finalRt"
    \/ ProbeAt(p, e, "backoff") /\ probes'[p][e].pc = "resolved"
    \/ ProbeAt(p, e, "process") /\ probes'[p][e].pc = "resolved"

\* A step in which the probe of e run by prober p completes a passing probe.
PassedResolution(p, e) ==
    ProbeAt(p, e, "setHealthy") /\ probes'[p][e].pc = "resolved"

\* C1: a healthy endpoint becomes unhealthy only in the step that brings its
\* consecutive-failure count to Retries, never at a smaller count.
C1_UnhealthyOnlyAtThreshold ==
    [][\A e \in EndpointIds :
          (endpoints[e].Healthy /\ ~endpoints'[e].Healthy)
              => endpoints'[e].FailCount = Retries]_vars

\* C2: a probe that passes leaves the endpoint healthy, whatever its health
\* and fail count were; so does the single-chain checker's markHealthy on
\* every runtime state an endpoint reaches.
C2_SuccessSetsHealthy ==
    /\ [][\A p \in ProberIds, e \in EndpointIds :
             PassedResolution(p, e) => endpoints'[e].Healthy]_vars
    /\ [](\A e \in EndpointIds, rt \in ResponseTimes :
             markHealthy(endpoints[e], rt, <<"1", "6">>).Healthy)

\* An endpoint that was unhealthy with failures counted is healthy right after
\* one passing probe.
C2_Witness ==
    /\ lastVerdict.healthy
    /\ ~lastVerdict.wasHealthy
    /\ lastVerdict.hadFailCount > 0
    /\ endpoints[lastVerdict.ep].Healthy

\* C3: right after a passing probe the endpoint's FailCount is 0, whatever it
\* was before; so it is after markHealthy on every runtime state reached.
C3_SuccessResetsFailCount ==
    /\ [][\A p \in ProberIds, e \in EndpointIds :
             PassedResolution(p, e) => endpoints'[e].FailCount = 0]_vars
    /\ [](\A e \in EndpointIds, rt \in ResponseTimes :
             markHealthy(endpoints[e], rt, <<"1", "6">>).FailCount = 0)

\* A passing probe has just reset a fail count that was above 0.
C3_Witness ==
    /\ lastVerdict.healthy
    /\ lastVerdict.hadFailCount > 0
    /\ endpoints[lastVerdict.ep].FailCount = 0
    /\ \E p \in ProberIds : ProbeAt(p, lastVerdict.ep, "resolved")

\* C4: a probe that fails adds exactly 1 to the endpoint's FailCount in the
\* step of its verdict, and FailCount grows in no other step: the attempts
\* of a pass are not counted one by one.
C4_OneIncrementPerFailedPass ==
    [][\A e \in EndpointIds :
          /\ \A p \in ProberIds :
                FailedResolution(p, e)
                    => endpoints'[e].FailCount = endpoints[e].FailCount + 1
          /\ endpoints'[e].FailCount > endpoints[e].FailCount
                => \E p \in ProberIds : FailedResolution(p, e)]_vars

\* A pass whose every attempt erred, with Retries attempts made, has counted
\* one failure.
C4_Witness ==
    \E p \in ProberIds, e \in EndpointIds :
        /\ ProbeAt(p, e, "finalRt")
        /\ probes[p][e].attempt = Retries
        /\ Retries > 1
        /\ endpoints[e].LastCheck = 1
        /\ endpoints[e].FailCount = 1

\* The endpoints of the chain a name is registered with by its callers.
EndpointsOfChain(name) == Range(ConfigEndpoints(ConfigFor(name)))

\* C5: while a chain name is not registered (RemoveChain has returned), no
\* runtime field of that chain's endpoints changes.
C5_NoMutationAfterRemove ==
    [][\A n \in ChainNames :
          ~IsRegistered(n)
              => \A e \in EndpointsOfChain(n) : endpoints'[e] = endpoints[e]]_vars

\* C6: once Stop waits for the probers, it eventually returns.
C6_StopReturns == (mu = "Stop") ~> (mu = "free")

\* C7: whenever the checker is stopped (Stop has returned, or Start was never
\* called) no prober goroutine and no probe goroutine is left, and no step
\* changes an endpoint's runtime fields.
C7_StoppedMeansDrained ==
    /\ []((~isRunning /\ mu = "free")
            => \A p \in ProberIds : ~ProberLive(p) /\ probes[p] = NoProbes)
    /\ [][(~isRunning /\ mu = "free") => endpoints' = endpoints]_vars

\* Stop has returned after probers ran and exited.
C7_Witness ==
    /\ ~isRunning
    /\ mu = "free"
    /\ ctxDone
    /\ \E p \in ProberIds : probers[p].pc = "exited"

\* C8: no two live prober goroutines serve the same chain.
C8_OneProberPerChain ==
    \A p, q \in ProberIds :
        (p # q /\ ProberLive(p) /\ ProberLive(q))
            => probers[p].chainName # probers[q].chainName

\* The probe of e run by prober p has made some but not all of the writes of
\* its outcome; the setters release the endpoint's lock between the writes.
PartiallyWritten(p, e) == probes[p][e].pc \in {"process", "setHealthy", "finalRt"}

\* C9: in no state, hence for no reader, is an endpoint's runtime record
\* between the writes of one probe outcome.
C9_NoPartialUpdate ==
    \A p \in ProberIds, e \in EndpointIds : ~PartiallyWritten(p, e)

C11_NoHealthyNoCall ==
    (fwd.read /\ fwd.healthy = <<>>)
        => /\ fwd.healthy = GetHealthyEndpoints(fwd.chain)
           /\ fwd.pc = "done"
           /\ fwd.calls = <<>>
           /\ fwd.writes = 1
           /\ fwd.reply = writeErrorResponse(-32000,
                 <<"No healthy RPC endpoints available for chain: ", fwd.chain>>,
                 <<>>)

\* A call for the registered chain found every endpoint unhealthy.
C11_Witness ==
    /\ fwd.read
    /\ fwd.healthy = <<>>
    /\ fwd.chain = "ethereum"
    /\ IsRegistered("ethereum")
    /\ fwd.reply.kind = "rpc_error"

\* The lists of distinct endpoints, in every order.
EndpointLists ==
    {l \in UNION {[1..n -> EndpointIds] : n \in 0..Cardinality(EndpointIds)} :
        \A i, j \in DOMAIN l : i # j => l[i] # l[j]}

PositionIn(l, e) == CHOOSE i \in DOMAIN l : l[i] = e

\* out holds the endpoints of input by non-increasing weight, endpoints of
\* equal weight in the order they have in input.
StableDescending(input, out) ==
    /\ Len(out) = Len(input)
    /\ Range(out) = Range(input)
    /\ \A i, j \in DOMAIN out :
          i < j => /\ weight[out[i]] >= weight[out[j]]
                   /\ weight[out[i]] = weight[out[j]]
                         => PositionIn(input, out[i]) < PositionIn(input, out[j])

\* C12: getSortedEndpointsByWeight returns, for every list of endpoints, a
\* permutation of it by non-increasing weight that keeps endpoints of equal
\* weight in their input order; the handler's sorted list is such an ordering
\* of the slice it read, and that slice keeps the order it was read in.
C12_StableSort ==
    /\ \A l \in EndpointLists :
          StableDescending(l, getSortedEndpointsByWeight(l))
    /\ fwd.read => /\ fwd.healthy = GetHealthyEndpoints(fwd.chain)
                   /\ StableDescending(fwd.healthy, fwd.sorted)

\* The sort moved an endpoint and kept two endpoints of equal weight in their
\* input order.
C12_Witness ==
    /\ fwd.read
    /\ fwd.sorted # fwd.healthy
    /\ \E i, j \in DOMAIN fwd.sorted :
          /\ i < j
          /\ weight[fwd.sorted[i]] = weight[fwd.sorted[j]]

\* C14: a call whose every upstream attempt erred, over a non-empty list, is
\* answered once, by a JSON-RPC error envelope with id null, a negative code
\* and HTTP status 200, whose data is the error of the last endpoint tried.
C14_ExhaustionEnvelope ==
    (/\ fwd.pc = "done"
     /\ fwd.calls # <<>>
     /\ \A i \in DOMAIN fwd.calls : fwd.calls[i].result \in TransportErrors)
        => LET last == fwd.calls[Len(fwd.calls)]
           IN /\ Len(fwd.calls) = Len(fwd.sorted)
              /\ last.ep = fwd.sorted[Len(fwd.sorted)]
              /\ fwd.writes = 1
              /\ fwd.reply.kind = "rpc_error"
              /\ fwd.reply.id = "null"
              /\ fwd.reply.code < 0
              /\ fwd.reply.status = 200
              /\ fwd.reply.data = <<last.result, last.ep>>

\* Two endpoints erred in different ways and the envelope is written.
C14_Witness ==
    /\ fwd.pc = "done"
    /\ Len(fwd.calls) >= 2
    /\ \A i \in DOMAIN fwd.calls : fwd.calls[i].result \in TransportErrors
    /\ fwd.calls[1].result # fwd.calls[Len(fwd.calls)].result
    /\ fwd.reply.kind = "rpc_error"

\* C15: every call handled by handleRPCForChain, whatever its method, body
\* and chain, ends with one response that is an upstream's response or a
\* JSON-RPC error envelope.
C15_AlwaysJsonRpc ==
    fwd.pc = "done"
        => /\ fwd.writes = 1
           /\ fwd.reply.kind \in {"upstream", "rpc_error"}

\* C16: an upstream response, whatever its status, ends the loop: it is the
\* last call made, its status and body are what the caller receives, written
\* once; every call before it ended in a transport error.
C16_FirstResponseVerbatim ==
    /\ \A i \in DOMAIN fwd.calls :
          IF fwd.calls[i].result = "response"
          THEN /\ i = Len(fwd.calls)
               /\ fwd.pc = "done"
               /\ fwd.resp.from = fwd.calls[i].ep
               /\ fwd.resp.status \in UpstreamStatuses
               /\ fwd.reply = copyResponse(fwd.resp.from, fwd.resp.status)
               /\ fwd.writes = 1
          ELSE fwd.calls[i].result \in TransportErrors
    /\ fwd.reply.kind = "upstream"
          => fwd.calls[Len(fwd.calls)].result = "response"

\* An upstream answered 502 and it was copied to the caller, an endpoint
\* of the list being left untried.
C16_Witness ==
    /\ fwd.reply.kind = "upstream"
    /\ fwd.reply.status = 502
    /\ fwd.resp.status = 502
    /\ Len(fwd.calls) < Len(fwd.sorted)

\* C17: for every chain name, GetHealthyEndpoints is the configured list of
\* the chain restricted to the endpoints that are healthy and enabled, in
\* configuration order, and empty when the name is not registered.
C17_HealthyAndEnabled ==
    \A n \in RequestChains :
        /\ GetHealthyEndpoints(n) =
              IF n \in ChainNames /\ IsRegistered(n)
              THEN SelectSeq(ConfigEndpoints(chains[n]),
                             LAMBDA e : endpoints[e].Healthy /\ enabled[e])
              ELSE <<>>
        /\ \A i \in DOMAIN GetHealthyEndpoints(n) :
              enabled[GetHealthyEndpoints(n)[i]]

\* A chain with a disabled endpoint has a healthy endpoint to return, and a
\* name that is not registered has none.
C17_Witness ==
    /\ Len(GetHealthyEndpoints("ethereum")) > 0
    /\ \E e \in Range(ConfigEndpoints(chains["ethereum"])) : ~enabled[e]
    /\ ~IsRegistered("sepolia")
    /\ GetHealthyEndpoints("sepolia") = <<>>

\* C13: a step of the handler of inbound calls, whatever the outcome of its
\* upstream attempts, changes no runtime field of any endpoint and nothing
\* else of the checker; the fields change only in steps of the prober.
C13_ForwardLeavesHealthAlone ==
    [][fwd' # fwd => /\ endpoints' = endpoints
                     /\ UNCHANGED forwardFrame]_vars

\* The forward to A timed out and B answered; A is as healthy as it was.
C13_Witness ==
    /\ fwd.pc = "done"
    /\ Len(fwd.calls) = 2
    /\ fwd.calls[1] = Call("e1", "timeout")
    /\ fwd.reply.from = "e2"
    /\ endpoints["e1"] = HealthyRuntime

\* No probe of the endpoint has reached a verdict: SetHealthy was never
\* called on it.
Unknown(e) == endpoints[e].LastCheck = 0

\* C18: an endpoint that no probe has reached a verdict on is not healthy, is
\* in no GetHealthyEndpoints result, and is neither listed nor called by the
\* handler of inbound calls; and an endpoint becomes healthy only in the step
\* that completes a passing probe of it.
C18_UnknownIsUnhealthy ==
    /\ [](\A e \in EndpointIds :
             Unknown(e)
                => /\ ~IsHealthy(e)
                   /\ \A n \in RequestChains :
                         \A i \in DOMAIN GetHealthyEndpoints(n) :
                             GetHealthyEndpoints(n)[i] # e
                   /\ \A i \in DOMAIN fwd.sorted : fwd.sorted[i] # e
                   /\ \A i \in DOMAIN fwd.calls : fwd.calls[i].ep # e)
    /\ [][\A e \in EndpointIds :
             (~endpoints[e].Healthy /\ endpoints'[e].Healthy)
                => \E p \in ProberIds : PassedResolution(p, e)]_vars

\* A call is forwarded to B, which has passed its first probe, while the
\* first probe of A has reached no verdict.
C18_Witness ==
    /\ enabled["e1"]
    /\ endpoints["e1"].LastCheck = 0
    /\ \E p \in ProberIds : probes[p]["e1"].pc \notin {"idle", "resolved"}
    /\ fwd.sorted = <<"e2">>
    /\ fwd.calls # <<>>

C20_RunningChainsAreProbed ==
    /\ [][(~isRunning /\ isRunning')
             => \A n \in ChainNames :
                   IsRegistered(n)
                      => \E p \in ProberIds : /\ probers'[p].pc = "pass"
                                              /\ probers'[p].chainName = n]_vars
    /\ [](isRunning
             => \A n \in ChainNames :
                   IsRegistered(n)
                      => \E p \in ProberIds : /\ ProberLive(p)
                                              /\ probers[p].chainName = n)

\* C21: an AddChain that registers a name while the checker runs launches,
\* in the same call, one prober for it, which is in its initial pass over the
\* registered config; an AddChain while the checker does not run launches
\* nothing; and Start launches a prober for every name registered by then.
C21_AddChainLaunches ==
    /\ [][\A n \in ChainNames :
             (~IsRegistered(n) /\ chains'[n] # NoConfig)
                => IF isRunning
                   THEN /\ launched' = launched + 1
                        /\ wg' = wg + 1
                        /\ probers'[launched'] =
                              [pc |-> "pass", chainName |-> n, cfg |-> chains'[n]]
                        /\ probes'[launched'] = NewPass(chains'[n])
                   ELSE /\ launched' = launched
                        /\ wg' = wg
                        /\ probers' = probers]_vars
    /\ [][(~isRunning /\ isRunning')
             => \A n \in ChainNames :
                   IsRegistered(n)
                      => \E p \in ProberIds :
                            /\ p > launched
                            /\ probers'[p] = [pc |-> "pass", chainName |-> n,
                                              cfg |-> chains[n]]]_vars

\* "sepolia" was added while the checker ran: its prober is in its initial
\* pass while the prober of "ethereum", launched by Start, has finished one.
C21_Witness ==
    /\ isRunning
    /\ launched = 2
    /\ probers[1].chainName = "ethereum"
    /\ probers[1].pc = "select"
    /\ probers[2] = [pc |-> "pass", chainName |-> "sepolia", cfg |-> "cfgSep"]
    /\ probes[2]["e4"] = [pc |-> "attempt", attempt |-> 0]
    /\ endpoints["e4"] = ZeroRuntime

\* C22: a Start that takes effect launches exactly one prober for each
\* registered chain that is enabled and has at least one endpoint, and no
\* prober for any other chain.
C22_StartLaunchesEnabledChains ==
    [][(~isRunning /\ isRunning')
          => \A n \in ChainNames :
                Cardinality({p \in ProberIds :
                                /\ p > launched
                                /\ p <= launched'
                                /\ probers'[p].chainName = n})
                   = IF /\ IsRegistered(n)
                        /\ ChainIsEnabled(chains[n])
                        /\ Len(ConfigEndpoints(chains[n])) > 0
                     THEN 1 ELSE 0]_vars

\* C23: a pass starts with one probe for each enabled endpoint of the chain's
\* config, about to make its first attempt, and none for any other endpoint;
\* the probes take their steps interleaved; the pass ends only in a state
\* where every one of them has resolved; and no step changes the runtime
\* fields of a disabled endpoint.
C23_PassFansOut ==
    /\ [][\A p \in ProberIds :
             (probers[p].pc # "pass" /\ probers'[p].pc = "pass")
                => \A e \in EndpointIds :
                      probes'[p][e] =
                         IF e \in Range(ConfigEndpoints(probers'[p].cfg)) /\ enabled[e]
                         THEN [pc |-> "attempt", attempt |-> 0]
                         ELSE IdleProbe]_vars
    /\ [][\A p \in ProberIds :
             (probers[p].pc = "pass" /\ probers'[p].pc # "pass")
                => \A e \in EndpointIds :
                      probes[p][e].pc \in {"idle", "resolved"}]_vars
    /\ [][\A e \in EndpointIds :
             ~enabled[e] => endpoints'[e] = endpoints[e]]_vars
    /\ [](\A p \in ProberIds, e \in EndpointIds :
             ~enabled[e] => probes[p][e] = IdleProbe)

\* Two probes of one pass are under way together, one waiting in its backoff
\* and one processing a response, and the disabled endpoint has no probe.
C23_Witness ==
    \E p \in ProberIds :
        /\ probers[p].pc = "pass"
        /\ probes[p]["e1"].pc = "backoff"
        /\ probes[p]["e2"].pc \in {"process", "setHealthy"}
        /\ ~enabled["e3"]
        /\ probes[p]["e3"] = IdleProbe

\* C24: a probe makes at most Retries attempts in a pass; an attempt after
\* the first starts only from the backoff wait that follows a transport
\* error, the context not being done; and a probe in its backoff whose
\* context is done resolves as failed without another attempt.
C24_BoundedAttempts ==
    /\ [](\A p \in ProberIds, e \in EndpointIds :
             /\ probes[p][e].attempt <= Retries
             /\ probes[p][e].pc = "attempt" => probes[p][e].attempt < Retries
             /\ probes[p][e].pc = "backoff"
                   => probes[p][e].attempt >= 1 /\ probes[p][e].attempt < Retries)
    /\ [][\A p \in ProberIds, e \in EndpointIds :
             probes'[p][e] # probes[p][e]
                => /\ probes'[p][e].pc = "attempt"
                      => \/ probes[p][e].pc = "idle" /\ probes'[p][e].attempt = 0
                         \/ /\ probes[p][e].pc = "backoff"
                            /\ probes'[p][e].attempt = probes[p][e].attempt
                            /\ ~ctxDone
                   /\ probes'[p][e].pc = "backoff"
                      => /\ probes[p][e].pc = "attempt"
                         /\ probes'[p][e].attempt = probes[p][e].attempt + 1
                   /\ (probes[p][e].pc = "backoff" /\ ctxDone)
                      => /\ probes'[p][e].pc = "resolved"
                         /\ ~endpoints'[e].Healthy]_vars

\* The checker was stopped while a probe waited in its backoff after a failed
\* first attempt: the probe resolved as failed without measuring a response.
C24_Witness ==
    /\ ctxDone
    /\ Retries > 1
    /\ \E p \in ProberIds :
          /\ probes[p]["e1"].pc = "resolved"
          /\ endpoints["e1"].LastCheck = 1
          /\ endpoints["e1"].FailCount = 1
          /\ endpoints["e1"].ResponseTime = 0

\* Endpoint e comes before endpoint f in the configuration order of cfg.
ConfiguredBefore(cfg, e, f) ==
    \E i, j \in DOMAIN ConfigEndpoints(cfg) :
        /\ i < j
        /\ ConfigEndpoints(cfg)[i] = e
        /\ ConfigEndpoints(cfg)[j] = f

\* C27: the status a GetChainStatus call returns for a registered chain lists
\* every endpoint of the chain once, in HealthyEndpoints or in
\* UnhealthyEndpoints; HealthyCount is the length of HealthyEndpoints;
\* TotalEndpoints is the sum of both lengths; CurrentRPC is the first
\* endpoint in configuration order that the status lists as healthy and that
\* is enabled, or empty when there is none.  Each endpoint joins the list
\* that its Healthy flag, at the moment it is read, selects, whatever the
\* probes do in between.
C27_SnapshotPartitions ==
    /\ [](snap.pc = "done" /\ snap.status # NoStatus
            => LET st  == snap.status
                   H   == Range(st.HealthyEndpoints)
                   U   == Range(st.UnhealthyEndpoints)
                   ok  == {e \in H : enabled[e]}
               IN /\ H \cap U = {}
                  /\ H \cup U = Range(ConfigEndpoints(st.Chain))
                  /\ Cardinality(H) = Len(st.HealthyEndpoints)
                  /\ Cardinality(U) = Len(st.UnhealthyEndpoints)
                  /\ st.HealthyCount = Len(st.HealthyEndpoints)
                  /\ st.TotalEndpoints =
                        Len(st.HealthyEndpoints) + Len(st.UnhealthyEndpoints)
                  /\ IF ok = {}
                     THEN st.CurrentRPC = ""
                     ELSE /\ st.CurrentRPC \in ok
                          /\ \A e \in ok \ {st.CurrentRPC} :
                                ConfiguredBefore(st.Chain, st.CurrentRPC, e))
    /\ [][(snap.pc = "reading" /\ snap'.index = snap.index + 1)
             => LET e == ConfigEndpoints(snap.cfg)[snap.index]
                IN IF endpoints[e].Healthy
                   THEN /\ snap'.healthyEndpoints = Append(snap.healthyEndpoints, e)
                        /\ snap'.unhealthyEndpoints = snap.unhealthyEndpoints
                   ELSE /\ snap'.unhealthyEndpoints = Append(snap.unhealthyEndpoints, e)
                        /\ snap'.healthyEndpoints = snap.healthyEndpoints]_vars

\* A status returned while a pass was running: e1 was read as unhealthy and
\* has passed its probe since, e2 was read as healthy and is the current RPC.
C27_Witness ==
    /\ snap.pc = "done"
    /\ snap.status.HealthyEndpoints = <<"e2">>
    /\ snap.status.UnhealthyEndpoints = <<"e1", "e3">>
    /\ snap.status.CurrentRPC = "e2"
    /\ snap.status.HealthyCount = 1
    /\ snap.status.TotalEndpoints = 3
    /\ endpoints["e1"].Healthy

\* Some probe goroutine has not resolved yet.
ProbeInFlight ==
    \E p \in ProberIds, e \in EndpointIds : probes[p][e].pc \notin {"idle", "resolved"}

\* C28: a status call that has reached mc.mu.RLock() while a probe is in
\* flight is granted the lock in that state: the write lock is not held.
C28_SnapshotNeverWaits ==
    (snap.pc = "rlock" /\ ProbeInFlight) => mu # "Stop"

\* The string is made of hexadecimal digits only, and of at least one.
IsHexNumeral(s) ==
    /\ Len(s) > 0
    /\ \A i \in DOMAIN s : s[i] \in Range(HexDigits)

\* The number a hexadecimal numeral denotes, read from its first digit on.
RECURSIVE HexValue(_, _)
HexValue(s, acc) ==
    IF Len(s) = 0 THEN acc
    ELSE HexValue(Tail(s), acc * 16 + DigitValue(Head(s)))

\* The answers the claim counts as a success.
WellFormedSuccess(resp) ==
    /\ resp.status = 200
    /\ resp.body = "string"
    /\ HasPrefix0x(resp.result)
    /\ IsHexNumeral(SubSeq(resp.result, 3, Len(resp.result)))

\* The latest probe was counted as a success: the endpoint is healthy with a
\* fail count of zero (every failure advances the fail count).
CountedAsSuccess ==
    /\ lastVerdict.ep # ""
    /\ endpoints[lastVerdict.ep].Healthy
    /\ endpoints[lastVerdict.ep].FailCount = 0

\* C25: a probe is counted as a success exactly when its answer has status
\* 200 and a well-formed body without an error whose result is "0x" followed
\* by a hexadecimal numeral (a non-negative integer); everything else,
\* a transport error included, is counted as a failure.
C25_SuccessIffWellFormed ==
    lastVerdict.ep # "" => (CountedAsSuccess <=> WellFormedSuccess(lastVerdict.resp))

\* C26: after a probe counted as a success on the result "0x" H, H a
\* hexadecimal numeral, the stored block number is the decimal numeral of
\* the value of H.
C26_BlockNumberIsDecimal ==
    (CountedAsSuccess /\ WellFormedSuccess(lastVerdict.resp))
       => endpoints[lastVerdict.ep].BlockNumber =
             FormatNat(HexValue(SubSeq(lastVerdict.resp.result, 3,
                                       Len(lastVerdict.resp.result)), 0))

\* C29: a POST or GET call whose body is malformed or cannot be read gets
\* the JSON-RPC error -32700, a code other than the one of the no-healthy and
\* exhaustion errors, and no upstream call is made for it.
C29_BadBodyIsParseError ==
    (fwd.pc # "idle" /\ fwd.method \in {"POST", "GET"} /\ fwd.body # "json")
       => /\ fwd.calls = <<>>
          /\ fwd.pc = "done"
          /\ fwd.reply.kind = writeErrorResponse(-32700, <<>>, <<>>).kind
          /\ fwd.reply.code = -32700
          /\ fwd.reply.code # -32000

\* C30: the calls of one inbound call go to the endpoints of the sorted list
\* in order, each at most once, a call being made only after every earlier
\* one has ended in an error; a step adds at most one call; there are never
\* more calls than endpoints in the healthy set read at the start; and a
\* handler that has entered its loop ends.
C30_SequentialBoundedAttempts ==
    /\ [](/\ Len(fwd.calls) <= Len(fwd.healthy)
          /\ \A i \in DOMAIN fwd.calls :
                /\ fwd.calls[i].ep = fwd.sorted[i]
                /\ i < Len(fwd.calls) => fwd.calls[i].result # "response"
          /\ \A i, j \in DOMAIN fwd.calls :
                i # j => fwd.calls[i].ep # fwd.calls[j].ep)
    /\ [][fwd.pc = "forwarding"
             => \/ fwd'.calls = fwd.calls
                \/ /\ Len(fwd'.calls) = Len(fwd.calls) + 1
                   /\ SubSeq(fwd'.calls, 1, Len(fwd.calls)) = fwd.calls]_vars
    /\ (fwd.pc = "forwarding") ~> (fwd.pc = "done")

\* Every one of three healthy endpoints was called once, one after another,
\* and the handler ended with the exhaustion envelope.
C30_Witness ==
    /\ fwd.pc = "done"
    /\ Len(fwd.healthy) = 3
    /\ Len(fwd.calls) = 3
    /\ fwd.reply.code = -32000

\* C31: a step changes the runtime fields of an endpoint only if it is a step
\* of a probe of that endpoint, in a pass of a prober whose config lists the
\* endpoint; and every pass of every prober ends, whatever the probes of the
\* other chains answer.
C31_ChainsAreIndependent ==
    /\ [][\A e \in EndpointIds :
             endpoints'[e] # endpoints[e]
                => \E p \in ProberIds :
                      /\ probers[p].pc = "pass"
                      /\ e \in Range(ConfigEndpoints(probers[p].cfg))
                      /\ probes'[p][e] # probes[p][e]
                      /\ \A f \in EndpointIds \ {e} : endpoints'[f] = endpoints[f]]_vars
    /\ \A p \in ProberIds :
          (probers[p].pc = "pass") ~> (probers[p].pc = "select")

\* The probe of "ethereum"'s endpoint has failed while the prober of
\* "sepolia" has finished its pass with its endpoint healthy.
C31_Witness ==
    \E p, q \in ProberIds :
        /\ probers[p].chainName = "ethereum"
        /\ probers[q].chainName = "sepolia"
        /\ ~endpoints["e1"].Healthy
        /\ endpoints["e1"].FailCount > 0
        /\ probers[q].pc = "select"
        /\ endpoints["e4"].Healthy

\* C37: whenever the checker runs, also after a Stop and a second Start, the
\* context that its live probers and their probes select on is not
\* cancelled, so that the probers wait for their ticks and the probes are
\* decided by the upstream's answers.
C37_RestartedCheckerIsLive ==
    (isRunning /\ \E p \in ProberIds : ProberLive(p)) => ~ctxDone

\* C38: a probe of a healthy endpoint that ends because the checker's context
\* was cancelled, in an attempt that got no answer or in the backoff wait,
\* leaves the endpoint healthy and its fail count as it was.
C38_StopKeepsHealth ==
    [][\A p \in ProberIds, e \in EndpointIds :
          (/\ ctxDone
           /\ endpoints[e].Healthy
           /\ probes[p][e].pc \in {"attempt", "backoff"}
           /\ probes'[p][e] # probes[p][e])
             => /\ endpoints'[e].Healthy
                /\ endpoints'[e].FailCount = endpoints[e].FailCount]_vars

\* A step in which a check of endpoint e by the single-chain checker fails.
FailedCheck(e) == hc'.fails[e] = hc.fails[e] + 1

C33_FailCountCountsFailures ==
    \A e \in Range(CheckerEndpoints) : endpoints[e].FailCount = hc.fails[e]

\* Some goroutine of the single-chain checker has not returned.
CheckerGoroutineLeft ==
    \E l \in LoopIds :
        \/ hc.loops[l] \in {"pass", "select"}
        \/ \E e \in Range(CheckerEndpoints) : hc.checks[l][e] = "checking"

\* C34: when the single-chain checker is not running (Stop has returned, or
\* Start was never called) none of its goroutines is left.
C34_CheckerStopDrains ==
    ~hc.running => ~CheckerGoroutineLeft

\* C36: no sequence of Start and Stop calls of the single-chain checker
\* closes the stop channel a second time.
C36_StartStopNeverPanics ==
    ~hc.panicked


\* The registered chains that have at least one healthy endpoint.
ChainsWithHealthyEndpoint ==
    {n \in ChainNames :
        /\ chains[n] # NoConfig
        /\ \E i \in DOMAIN ConfigEndpoints(chains[n]) :
              endpoints[ConfigEndpoints(chains[n])[i]].Healthy}

\* C35: the status GET /health builds has TotalChains = the number of
\* registered chains, HealthyChains = the number of registered chains with at
\* least one healthy endpoint (so between 0 and TotalChains), Proxy "healthy"
\* exactly when HealthyChains > 0, and the answer is 503 exactly when
\* HealthyChains = 0; GET /health/{chain} answers 404 for a chain that is not
\* registered and otherwise 503 exactly when the chain's HealthyCount is 0.
C35_HealthStatusCounts ==
    [][
        /\ (snap' # snap /\ snap'.multi # NoMultiStatus) =>
             /\ snap'.multi.TotalChains =
                   Cardinality({n \in ChainNames : chains[n] # NoConfig})
             /\ snap'.multi.HealthyChains = Cardinality(ChainsWithHealthyEndpoint)
             /\ snap'.multi.HealthyChains >= 0
             /\ snap'.multi.HealthyChains <= snap'.multi.TotalChains
             /\ ((snap'.multi.Proxy = "healthy") <=> (snap'.multi.HealthyChains > 0))
             /\ snap'.multi.Proxy \in {"healthy", "unhealthy"}
             /\ ((snap'.http = 503) <=> (snap'.multi.HealthyChains = 0))
             /\ snap'.http \in {200, 503}
        /\ (snap.pc = "rlock" /\ snap'.pc # "rlock") =>
             ((snap'.http = 404) <=>
                 (snap.chainName \notin ChainNames \/ chains[snap.chainName] = NoConfig))
        /\ (snap.pc = "reading" /\ snap'.pc = "done") =>
             /\ ((snap'.http = 503) <=> (snap'.status.HealthyCount = 0))
             /\ snap'.http \in {200, 503}
             /\ snap'.status.HealthyCount = Len(snap'.status.HealthyEndpoints)
      ]_vars

\* Two chains are registered, one of them with no healthy endpoint, and
\* GET /health has answered 200 with HealthyChains = 1 of TotalChains = 2.
C35_Witness ==
    /\ snap.pc = "done"
    /\ snap.multi.TotalChains = 2
    /\ snap.multi.HealthyChains = 1
    /\ snap.multi.Proxy = "healthy"
    /\ snap.http = 200
    /\ Cardinality({n \in ChainNames : chains[n] # NoConfig}) = 2


\* C39: while a chain is not registered (from the return of RemoveChain to a
\* later AddChain), GetHealthyEndpoints of it is empty, a GetChainStatus of
\* it finds nothing, GetMultiChainStatus does not list it, and a forward to
\* it that starts then is answered with the no-healthy-endpoints error
\* without any upstream call; the step that unregisters a chain leaves every
\* other chain's registration and every endpoint as they were.
C39_RemovedChainIsGone ==
    [][
        /\ \A n \in ChainNames :
              chains[n] = NoConfig => GetHealthyEndpoints(n) = <<>>
        /\ (/\ snap.pc = "rlock" /\ snap'.pc # "rlock"
            /\ snap.chainName \in ChainNames
            /\ chains[snap.chainName] = NoConfig) =>
              /\ snap'.pc = "done"
              /\ snap'.status = NoStatus
              /\ snap'.http = 404
        /\ (snap' # snap /\ snap'.multi # NoMultiStatus) =>
              /\ snap'.multi.Chains = {n \in ChainNames : chains[n] # NoConfig}
              /\ snap'.multi.TotalChains = Cardinality(snap'.multi.Chains)
        /\ (/\ fwd.pc \in {"idle", "done"} /\ fwd' # fwd
            /\ fwd'.method \in {"POST", "GET"} /\ fwd'.body # "unreadable"
            /\ fwd'.chain \in ChainNames
            /\ chains[fwd'.chain] = NoConfig) =>
              /\ fwd'.pc = "done"
              /\ fwd'.calls = <<>>
              /\ fwd'.sorted = <<>>
              /\ fwd'.writes = 1
              /\ fwd'.reply.kind = "rpc_error"
              /\ fwd'.reply.code = -32000
        /\ \A n \in ChainNames :
              (chains[n] # NoConfig /\ chains'[n] = NoConfig) =>
                 /\ \A m \in ChainNames \ {n} : chains'[m] = chains[m]
                 /\ endpoints' = endpoints
      ]_vars

\* "ethereum" has been removed while its endpoint e1 is healthy and
\* "sepolia" stays registered; a forward to "ethereum" was answered with the
\* no-healthy-endpoints error and no upstream call.
C39_Witness ==
    /\ chains["ethereum"] = NoConfig
    /\ chains["sepolia"] # NoConfig
    /\ endpoints["e1"].Healthy
    /\ fwd.pc = "done"
    /\ fwd.chain = "ethereum"
    /\ fwd.calls = <<>>
    /\ fwd.reply.code = -32000

====
